---- MODULE Spec2Model ----
(***************************************************************************)
(* Member records, join positions and the daily Level Up counter of the   *)
(* Discord bot "The System": src/database.py (MongoDatabaseManager),       *)
(* src/main.py and src/cogs/welcome.py (join / leave handlers),            *)
(* src/cogs/player.py (IncrementButton) and src/cogs/debug.py             *)
(* (_perform_sync, fix_member_data).                                       *)
(*                                                                         *)
(* One guild is modelled.  The members collection is a sequence of         *)
(* documents in storage (insertion) order: the code creates no unique      *)
(* index, so two documents may carry the same user_id, and find_one /      *)
(* update_one / delete_one act on the first match.                         *)
(*                                                                         *)
(* Time is counted in ticks, TicksPerDay ticks to a UTC calendar day.      *)
(* Live members always carry a joined_at (the "or utcnow()" fallbacks of   *)
(* the code are not exercised).                                            *)
(***************************************************************************)
EXTENDS Integers, Sequences, FiniteSets, TLC

\* ------------------------------------------------------------------ bounds
NumHumans == 2
NumBots == 1
MaxTime == 3
TicksPerDay == 2
\* SpecOrder: the accounts and join times the ordering is tried on
NumOrdHumans == 3
NumOrdBots == 2
MaxLive == 4
MaxKey == 1
\* Spec: concurrent Level Up presses, and events and commands per run
NumPress == 2
MaxOps == 3
NumConcHumans == 1
NumConcBots == 1
\* SpecSeq: events and commands handled per run
MaxSeqOps == 4
\* SpecRank: the stores the leaderboard is drawn from, and the page sizes
MaxDocs == 3
MaxHabit == 2
MaxLimit == 2

\* SpecEdit: the messages in the channel a clear command purges, and commands per run
MaxMessages == 2
MaxEditOps == 3
\* SpecBoard: leaderboard messages sent, channels, and events and commands per run
MaxPosts == 2
NumChannels == 1
MaxBoardOps == 5
\* SpecPages: the documents of the store, the page size standing for Show More's 10,
\* the users that press the buttons, and presses and events per run
MaxRanked == 5
ShowMoreLimit == 2
NumPageUsers == 2
MaxPageOps == 4

\* Python's None (a null last_increment) and a field the document lacks.
None == -1
NoField == -2

\* Account ids: humans count from 1, bot accounts from 11.
Humans == 1..NumHumans
Bots == {10 + b : b \in 1..NumBots}
Users == Humans \cup Bots
ConcUsers == (1..NumConcHumans) \cup {10 + b : b \in 1..NumConcBots}
OrdUsers == (1..NumOrdHumans) \cup {10 + b : b \in 1..NumOrdBots}
AllUsers == Users \cup ConcUsers \cup OrdUsers
Times == 0..MaxTime

\* discord.Member.bot: fixed for an account
IsBot(u) == u > 10

\* datetime.date() of a timestamp, and timedelta(days=1)
DateOf(t) == t \div TicksPerDay
OneDay == TicksPerDay

VARIABLES
    members,      \* db.members of the guild: Seq of documents
    live,         \* guild.members: Seq of user ids, in cache order
    joinedAt,     \* member.joined_at of each user (of its latest join)
    now,          \* the clock
    lastOp,       \* the handler that ran last, with what it reported
    ordIn,        \* SpecOrder: the live list handed to the ordering
    ordOut,       \* SpecOrder: the positions the ordering assigned
    shown,        \* SpecRank: what the leaderboard and Profile interactions displayed
    press,        \* Spec: the running IncrementButton.callback tasks
    joinTasks,    \* Spec: the running on_member_join tasks, per handler and user
    leaveTasks,   \* Spec: the running on_member_remove tasks, per user
    sync,         \* Spec: the running _perform_sync
    rebuild,      \* Spec: the running fix_member_data
    ops,          \* Spec: events and commands started so far
    settings,     \* db.server_settings of the guild: Seq of documents
    guild,        \* the guild on Discord: bans, timeouts, channel and leaderboard messages
    leaderboard_data,  \* player.py's in-memory leaderboard_data[guild.id]
    prompt,       \* the confirmation a command is waiting on
    session,      \* the PaginatedLeaderboardView a Show More press opened
    settingsTasks \* the get_server_settings calls that found no document and will insert

tasks == <<press, joinTasks, leaveTasks, sync, rebuild, ops>>
admin == <<settings, guild, leaderboard_data, prompt, session, settingsTasks>>
vars == <<members, live, joinedAt, now, lastOp, ordIn, ordOut, shown, admin, tasks>>

\* No command outside the member records has run: no settings document, nothing
\* banned, timed out or posted, no prompt and no paginated view open
NoPrompt == [cmd |-> "none", author |-> 0, target |-> 0]
NoSession == [open |-> FALSE, offset |-> 0, limit |-> 0, user |-> 0, page |-> <<>>]
NoGuildEffects ==
    [banned |-> {}, timed_out |-> {}, messages |-> 0, posts |-> {}, sent |-> 0, bot_in |-> TRUE]
NoAdmin ==
    /\ settings = <<>>
    /\ guild = NoGuildEffects
    /\ leaderboard_data = None
    /\ prompt = NoPrompt
    /\ session = NoSession
    /\ settingsTasks = 0

\* ------------------------------------------------------- the document store

Doc(u, j, p, b, h, l) ==
    [user_id |-> u, joined_at |-> j, join_position |-> p, is_bot |-> b,
     habit_count |-> h, last_increment |-> l]

\* members.find_one({"user_id": u, "guild_id": g}): index of the first match, 0 for None
FindOne(db, u) ==
    IF \E i \in 1..Len(db) : db[i].user_id = u
    THEN CHOOSE i \in 1..Len(db) :
            /\ db[i].user_id = u
            /\ \A k \in 1..(i - 1) : db[k].user_id # u
    ELSE 0

\* find_one's document, and whether it found one
DocOf(db, u) == db[FindOne(db, u)]
HasDoc(db, u) == FindOne(db, u) # 0

\* member.get("habit_count", 0)
HabitOf(d) == IF d.habit_count = NoField THEN 0 ELSE d.habit_count

RemoveAt(s, i) == SubSeq(s, 1, i - 1) \o SubSeq(s, i + 1, Len(s))

\* calculate_join_position: count of non-bot documents that joined strictly earlier, plus 1
calculate_join_position(db, joined_at) ==
    Cardinality({i \in 1..Len(db) :
                    db[i].is_bot = FALSE /\ db[i].joined_at < joined_at}) + 1

\* add_member's update_one(..., upsert=True): $set resets habit_count and last_increment
AddMemberUpsert(db, u, joined_at, pos, bot) ==
    LET i == FindOne(db, u) IN
    IF i = 0
    THEN Append(db, Doc(u, joined_at, pos, bot, 0, None))
    ELSE [db EXCEPT ![i] = Doc(u, joined_at, pos, bot, 0, None)]

\* add_member with no other task between its two awaits
add_member(db, u, joined_at, bot) ==
    AddMemberUpsert(db, u, joined_at, calculate_join_position(db, joined_at), bot)

\* remove_member: delete_one
remove_member(db, u) ==
    LET i == FindOne(db, u) IN IF i = 0 THEN db ELSE RemoveAt(db, i)

\* update_member(last_increment=v, username=..., display_name=...): $set, no upsert
update_member(db, u, v) ==
    LET i == FindOne(db, u) IN
    IF i = 0 THEN db ELSE [db EXCEPT ![i].last_increment = v]

AlreadyIncrementedWithinDay(d, t) ==
    d.last_increment # None /\ t - d.last_increment <= OneDay

\* increment_habit's date check on the document it read
AlreadyIncremented(d, t) ==
    d.last_increment # None /\ DateOf(d.last_increment) = DateOf(t)

IncrementWriteAll(db, u, t) ==
    [i \in 1..Len(db) |-> [db[i] EXCEPT !.habit_count = HabitOf(db[i]) + 1,
                                        !.last_increment = t]]

\* increment_habit's update_one: $inc habit_count, $set last_increment
IncrementWrite(db, u, t) ==
    LET i == FindOne(db, u) IN
    IF i = 0 THEN db
    ELSE [db EXCEPT ![i].habit_count = HabitOf(db[i]) + 1,
                    ![i].last_increment = t]

HandlerRejectsFlipped(last, t) == last # None /\ t - last > OneDay

\* the handler's cooldown check: time_diff < timedelta(days=1)
HandlerRejects(last, t) == last # None /\ t - last < OneDay

\* ------------------------------------------------ ordering, sync and rebuild

\* list.insert keeping a sorted list sorted, after every element whose key is <= u's
InsertSorted(t, u, key) ==
    LET k == Cardinality({i \in 1..Len(t) : key[t[i]] <= key[u]}) IN
    SubSeq(t, 1, k) \o <<u>> \o SubSeq(t, k + 1, Len(t))

\* sorted(s, key=lambda m: m.joined_at): ascending, equal keys keep their input order
RECURSIVE Sorted(_, _)
Sorted(s, key) ==
    IF s = <<>> THEN <<>>
    ELSE InsertSorted(Sorted(SubSeq(s, 1, Len(s) - 1), key), s[Len(s)], key)

IsHuman(u) == ~IsBot(u)

\* humans = sorted([m for m in guild.members if not m.bot], key=joined_at)
SortedHumans(lv, key) == Sorted(SelectSeq(lv, IsHuman), key)
\* bots = sorted([m for m in guild.members if m.bot], key=joined_at)
SortedBots(lv, key) == Sorted(SelectSeq(lv, IsBot), key)

OrderedMembersUnpartitioned(lv, key) == Sorted(lv, key)

\* ordered_members = humans + bots
OrderedMembers(lv, key) == SortedHumans(lv, key) \o SortedBots(lv, key)

\* _perform_sync, the position of a member it inserts:
\* len(humans) + 1 for a bot, else 1 + the humans before it in ordered_members
SyncJoinPosition(ordered, i) ==
    LET nHumans == Len(SelectSeq(ordered, IsHuman)) IN
    IF IsBot(ordered[i]) THEN nHumans + 1
    ELSE Len(SelectSeq(SubSeq(ordered, 1, i - 1), IsHuman)) + 1

SyncUpdateRenumbering(db, u) ==
    LET k == FindOne(db, u) IN
    IF k = 0 THEN db ELSE [db EXCEPT ![k].is_bot = IsBot(u), ![k].join_position = k]

SyncUpdateResetting(db, u) ==
    LET k == FindOne(db, u) IN
    IF k = 0 THEN db
    ELSE [db EXCEPT ![k].is_bot = IsBot(u), ![k].habit_count = 0,
                    ![k].last_increment = None]

\* _perform_sync, the update_one of a member that has a document
\* (username, display_name, is_bot, updated_at)
SyncUpdate(db, u) ==
    LET k == FindOne(db, u) IN
    IF k = 0 THEN db ELSE [db EXCEPT ![k].is_bot = IsBot(u)]

\* _perform_sync, the insert_one of a member that has none: the document carries
\* neither habit_count nor last_increment
SyncInsert(db, ordered, i, key) ==
    Append(db, Doc(ordered[i], key[ordered[i]], SyncJoinPosition(ordered, i),
                   IsBot(ordered[i]), NoField, None))

SyncIterationWrongKey(st, ordered, i, key) ==
    [db |-> SyncInsert(st.db, ordered, i, key), added |-> st.added + 1,
     updated |-> st.updated]

\* one iteration of _perform_sync's loop on [db, added, updated]
SyncIteration(st, ordered, i, key) ==
    IF FindOne(st.db, ordered[i]) # 0
    THEN [db |-> SyncUpdate(st.db, ordered[i]), added |-> st.added,
          updated |-> st.updated + 1]
    ELSE [db |-> SyncInsert(st.db, ordered, i, key), added |-> st.added + 1,
          updated |-> st.updated]

RECURSIVE SyncLoop(_, _, _, _)
SyncLoop(st, ordered, i, key) ==
    IF i > Len(ordered) THEN st
    ELSE SyncLoop(SyncIteration(st, ordered, i, key), ordered, i + 1, key)

\* _perform_sync run to completion with no other task in between
PerformSync(db, lv, key) ==
    SyncLoop([db |-> db, added |-> 0, updated |-> 0], OrderedMembers(lv, key), 1, key)

PreservedHabitLost(snap, u) == 0

\* fix_member_data's existing_habit_data[user_id]: a later document of the same
\* user overwrites an earlier one; {} for a user with no document
PreservedHabit(snap, u) ==
    LET S == {i \in 1..Len(snap) : snap[i].user_id = u} IN
    IF S = {} THEN 0
    ELSE HabitOf(snap[CHOOSE i \in S : \A k \in S : k <= i])

PreservedLast(snap, u) ==
    LET S == {i \in 1..Len(snap) : snap[i].user_id = u} IN
    IF S = {} THEN None
    ELSE snap[CHOOSE i \in S : \A k \in S : k <= i].last_increment

\* fix_member_data, member_doc for enumerate(all_members, 1)
RebuildDoc(snap, ordered, position, key) ==
    Doc(ordered[position], key[ordered[position]], position, IsBot(ordered[position]),
        PreservedHabit(snap, ordered[position]), PreservedLast(snap, ordered[position]))

FixMemberDataKeeping(db, lv, key) ==
    LET ordered == OrderedMembers(lv, key) IN
    db \o [position \in 1..Len(ordered) |-> RebuildDoc(db, ordered, position, key)]

\* fix_member_data run to completion: delete_many, then one insert_one per member
FixMemberData(db, lv, key) ==
    LET ordered == OrderedMembers(lv, key) IN
    [position \in 1..Len(ordered) |-> RebuildDoc(db, ordered, position, key)]

\* the join_position fix_member_data gives each live member
RebuildPositions(lv, key) ==
    LET docs == FixMemberData(<<>>, lv, key) IN
    [u \in {lv[i] : i \in 1..Len(lv)} |->
        docs[CHOOSE i \in 1..Len(docs) : docs[i].user_id = u].join_position]

\* ------------------------------------------------------------------- tasks

Handlers == {"main", "welcome"}

IdlePress ==
    [pc |-> "idle", user |-> 0, last |-> None, count |-> 0, t |-> 0, joined |-> 0,
     jp |-> 0, t2 |-> 0, res |-> "none"]
IdleJoin == [pc |-> "idle", joined |-> 0, jp |-> 0]
IdleSync == [pc |-> "idle", ordered |-> <<>>, key |-> <<>>, i |-> 0, added |-> 0, updated |-> 0]
IdleRebuild == [pc |-> "idle", snap |-> <<>>, ordered |-> <<>>, key |-> <<>>, i |-> 0]

NoTasks ==
    /\ press = [p \in 1..NumPress |-> IdlePress]
    /\ joinTasks = [h \in Handlers |-> [u \in ConcUsers |-> IdleJoin]]
    /\ leaveTasks = [u \in ConcUsers |-> "idle"]
    /\ sync = IdleSync
    /\ rebuild = IdleRebuild
    /\ ops = 0

\* ------------------------------------------------ handlers run to completion

\* Sequences over S without repetition, of at most n elements
Lists(S, n) ==
    {s \in UNION {[1..k -> S] : k \in 0..n} :
        \A i, j \in 1..Len(s) : i # j => s[i] # s[j]}

InList(lv, u) == \E i \in 1..Len(lv) : lv[i] = u

\* What the handler that ran last reported (a, b: its numbers), and the handler before it
Report(op, u, res, a, b) ==
    [op |-> op, user |-> u, res |-> res, a |-> a, b |-> b, after |-> lastOp.op]

NoReport == [op |-> "start", user |-> 0, res |-> "none", a |-> 0, b |-> 0, after |-> "start"]

\* No leaderboard page and no profile has been displayed
NoView == [limit |-> 0, pages |-> <<>>, ranking |-> <<>>, profile |-> <<>>]

\* One more event or command is handled, of at most MaxSeqOps per behaviour
Handled == ops < MaxSeqOps /\ ops' = ops + 1

others == <<press, joinTasks, leaveTasks, sync, rebuild>>

\* The bot is added to a guild that already has members; its database is empty.
InitSeq ==
    /\ live \in Lists(Users, NumHumans + NumBots)
    /\ joinedAt = [u \in AllUsers |-> 0]
    /\ members = <<>>
    /\ now = 0
    /\ lastOp = NoReport
    /\ ordIn = <<>>
    /\ ordOut = <<>>
    /\ shown = NoView
    /\ NoAdmin
    /\ NoTasks

\* on_member_join: main.py's handler and the welcome cog's listener both run add_member
SeqJoin(u) ==
    /\ Handled
    /\ ~InList(live, u)
    /\ live' = Append(live, u)
    /\ joinedAt' = [joinedAt EXCEPT ![u] = now]
    /\ members' = add_member(add_member(members, u, now, IsBot(u)), u, now, IsBot(u))
    /\ lastOp' = Report("join", u, "ok", 0, 0)
    /\ UNCHANGED <<now, ordIn, ordOut, shown, admin, others>>

\* on_member_remove: remove_member
SeqLeave(u) ==
    /\ Handled
    /\ InList(live, u)
    /\ live' = SelectSeq(live, LAMBDA x : x # u)
    /\ members' = remove_member(members, u)
    /\ lastOp' = Report("leave", u, "ok", 0, 0)
    /\ UNCHANGED <<joinedAt, now, ordIn, ordOut, shown, admin, others>>

\* on_member_remove when remove_member raises (the store is unreachable): the
\* handler's except logs the error and the document stays
SeqLeaveFailed(u) ==
    /\ Handled
    /\ InList(live, u)
    /\ live' = SelectSeq(live, LAMBDA x : x # u)
    /\ lastOp' = Report("leave_failed", u, "error", 0, 0)
    /\ UNCHANGED <<members, joinedAt, now, ordIn, ordOut, shown, admin, others>>

\* IncrementButton.callback up to its cooldown check: the store after the
\* create-if-absent path
PressCreated(db, u, key) ==
    IF FindOne(db, u) = 0 THEN add_member(db, u, key[u], IsBot(u)) ELSE db

\* member_data.get("last_increment") of the handler's first read
PressLast(db, u) ==
    IF FindOne(db, u) = 0 THEN None ELSE db[FindOne(db, u)].last_increment

\* current_count = member_data.get("habit_count", 0)
PressCount(db, u) ==
    IF FindOne(db, u) = 0 THEN 0 ELSE HabitOf(db[FindOne(db, u)])

\* increment_habit run at time t2 with no other task between its read and its write
increment_habit(db, u, t2) ==
    IF AlreadyIncremented(db[FindOne(db, u)], t2) THEN db ELSE IncrementWrite(db, u, t2)

\* IncrementButton.callback past the cooldown check: increment_habit (its own now,
\* t2), then update_member with the now the handler captured (t)
PressAccepted(db, u, t, t2) == update_member(increment_habit(db, u, t2), u, t)

\* One Level Up press of a live human, run to completion.  The clock may advance
\* while the handler awaits the store: increment_habit's now is t2 >= now.
SeqPress(u) ==
    /\ Handled
    /\ InList(live, u) /\ IsHuman(u)
    /\ IF HandlerRejects(PressLast(members, u), now)
       THEN /\ members' = members
            /\ now' = now
            /\ lastOp' = Report("press", u, "rejected", PressLast(members, u) + OneDay, 0)
       ELSE \E t2 \in {now, now + 1} \cap Times :
            /\ members' = PressAccepted(PressCreated(members, u, joinedAt), u, now, t2)
            /\ now' = t2
            /\ lastOp' = Report("press", u, "success", PressCount(members, u) + 1, 0)
    /\ UNCHANGED <<live, joinedAt, ordIn, ordOut, shown, admin, others>>

\* _perform_sync (sync command / analyze_members)
SeqSync ==
    /\ Handled
    /\ members' = PerformSync(members, live, joinedAt).db
    /\ lastOp' = Report("sync", 0, "ok", PerformSync(members, live, joinedAt).added,
                        PerformSync(members, live, joinedAt).updated)
    /\ UNCHANGED <<live, joinedAt, now, ordIn, ordOut, shown, admin, others>>

\* fix_member_data, confirmed (a: len(all_members), b: len(existing_members))
SeqRebuild ==
    /\ Handled
    /\ members' = FixMemberData(members, live, joinedAt)
    /\ lastOp' = Report("rebuild", 0, "ok", Len(live), Len(members))
    /\ UNCHANGED <<live, joinedAt, now, ordIn, ordOut, shown, admin, others>>

Tick ==
    /\ now < MaxTime
    /\ now' = now + 1
    /\ lastOp' = Report("tick", 0, "ok", 0, 0)
    /\ UNCHANGED <<members, live, joinedAt, ordIn, ordOut, shown, admin, tasks>>

NextSeq ==
    \/ \E u \in Users : SeqJoin(u)
    \/ \E u \in Users : SeqLeave(u)
    \/ \E u \in Users : SeqLeaveFailed(u)
    \/ \E u \in Users : SeqPress(u)
    \/ SeqSync
    \/ SeqRebuild
    \/ Tick

SpecSeq == InitSeq /\ [][NextSeq]_vars

\* ------------------------------------------- sync and rebuild that fail part way

\* _perform_sync's loop stopped by an exception after iterations 1..n
RECURSIVE SyncLoopUntil(_, _, _, _, _)
SyncLoopUntil(st, ordered, i, n, key) ==
    IF i > n THEN st
    ELSE SyncLoopUntil(SyncIteration(st, ordered, i, key), ordered, i + 1, n, key)

\* _perform_sync aborted by a store failure once n members were written
PerformSyncAborted(db, lv, key, n) ==
    SyncLoopUntil([db |-> db, added |-> 0, updated |-> 0], OrderedMembers(lv, key), 1, n, key)

\* _perform_sync whose find_one, update_one, insert_one or progress edit raises:
\* the except reports "Sync failed" and the writes made so far stay
SeqSyncFailed ==
    /\ Handled
    /\ \E n \in 0..Len(live) :
        /\ members' = PerformSyncAborted(members, live, joinedAt, n).db
        /\ lastOp' = Report("sync_failed", 0, "error",
                            PerformSyncAborted(members, live, joinedAt, n).added,
                            PerformSyncAborted(members, live, joinedAt, n).updated)
    /\ UNCHANGED <<live, joinedAt, now, ordIn, ordOut, shown, admin, others>>

\* fix_member_data aborted by a store failure after delete_many and n insert_one
FixMemberDataAborted(db, lv, key, n) == SubSeq(FixMemberData(db, lv, key), 1, n)

\* fix_member_data, confirmed, whose find or delete_many raises (nothing is
\* written), or whose insert_one or later await raises after n inserts: the
\* except reports "Rebuild failed" (a: inserts made, b: len(existing_members))
SeqRebuildFailed ==
    /\ Handled
    /\ \/ /\ members' = members
          /\ lastOp' = Report("rebuild_failed", 0, "error", 0, Len(members))
       \/ \E n \in 0..Len(live) :
          /\ members' = FixMemberDataAborted(members, live, joinedAt, n)
          /\ lastOp' = Report("rebuild_failed", 0, "deleted", n, Len(members))
    /\ UNCHANGED <<live, joinedAt, now, ordIn, ordOut, shown, admin, others>>

\* Joins, presses, and sync and rebuild commands that complete or fail part way
NextRetry ==
    \/ \E u \in Users : SeqJoin(u)
    \/ \E u \in Users : SeqPress(u)
    \/ SeqSync
    \/ SeqSyncFailed
    \/ SeqRebuild
    \/ SeqRebuildFailed
    \/ Tick

SpecRetry == InitSeq /\ [][NextRetry]_vars

\* ------------------------------------------------ commands behind a confirmation

PromptCheckAnyUser(cmd, author, u, e) ==
    IF cmd = "analyze" THEN e = "confirm" ELSE e \in {"confirm", "cancel"}

\* check(reaction, user) of ctx_prompt and fix_member_data (author, check mark or
\* cross) and of analyze_members (author, check mark), on the prompt's message
PromptCheck(cmd, author, u, e) ==
    /\ u = author
    /\ IF cmd = "analyze" THEN e = "confirm" ELSE e \in {"confirm", "cancel"}

\* guild.members once member m is banned
WithoutMember(lv, m) == SelectSeq(lv, LAMBDA x : x # m)

\* analyze_members: missing_humans or missing_bots
MissingMembers(db, lv) == \E i \in 1..Len(lv) : ~HasDoc(db, lv[i])

\* ban: ctx_prompt sends the prompt and waits for the author's reaction
BanStart(a, m) ==
    /\ Handled
    /\ prompt = NoPrompt
    /\ InList(live, a) /\ IsHuman(a) /\ InList(live, m) /\ a # m
    /\ prompt' = [cmd |-> "ban", author |-> a, target |-> m]
    /\ lastOp' = Report("ban", a, "prompt", m, 0)
    /\ UNCHANGED <<members, live, joinedAt, now, ordIn, ordOut, shown,
                   settings, guild, leaderboard_data, session, settingsTasks, others>>

\* fix_member_data: the confirmation message is sent and the command waits
FixStart(a) ==
    /\ Handled
    /\ prompt = NoPrompt
    /\ InList(live, a) /\ IsHuman(a)
    /\ prompt' = [cmd |-> "fix", author |-> a, target |-> 0]
    /\ lastOp' = Report("fix", a, "prompt", 0, 0)
    /\ UNCHANGED <<members, live, joinedAt, now, ordIn, ordOut, shown,
                   settings, guild, leaderboard_data, session, settingsTasks, others>>

\* analyze_members: with missing members it syncs at once; with none it asks
\* whether to sync anyway and waits
AnalyzeStart(a) ==
    /\ Handled
    /\ prompt = NoPrompt
    /\ InList(live, a) /\ IsHuman(a)
    /\ IF MissingMembers(members, live)
       THEN /\ members' = PerformSync(members, live, joinedAt).db
            /\ prompt' = prompt
            /\ lastOp' = Report("analyze", a, "auto_sync",
                                PerformSync(members, live, joinedAt).added,
                                PerformSync(members, live, joinedAt).updated)
       ELSE /\ members' = members
            /\ prompt' = [cmd |-> "analyze", author |-> a, target |-> 0]
            /\ lastOp' = Report("analyze", a, "prompt", 0, 0)
    /\ UNCHANGED <<live, joinedAt, now, ordIn, ordOut, shown,
                   settings, guild, leaderboard_data, session, settingsTasks, others>>

\* A reaction_add on the prompt's message while the command waits: the check mark
\* ("confirm"), the cross ("cancel") or any other emoji.  One the check
\* refuses leaves the command waiting.  Otherwise: ban bans on the check mark
\* (member.ban may be refused by Discord); fix_member_data rebuilds on the check
\* mark and then invokes analyze_members, which finds nothing missing and asks
\* again; analyze_members syncs.  The cross cancels.
ReactionAdd(u, e) ==
    /\ Handled
    /\ prompt # NoPrompt
    /\ InList(live, u)
    /\ IF ~PromptCheck(prompt.cmd, prompt.author, u, e)
       THEN /\ lastOp' = Report("react_" \o e, u, "ignored", 0, 0)
            /\ UNCHANGED <<members, live, guild, prompt>>
       ELSE IF e = "cancel"
       THEN /\ lastOp' = Report("react_cancel", u, "cancelled", 0, 0)
            /\ prompt' = NoPrompt
            /\ UNCHANGED <<members, live, guild>>
       ELSE IF prompt.cmd = "ban"
       THEN /\ prompt' = NoPrompt
            /\ members' = members
            /\ \/ /\ guild' = [guild EXCEPT !.banned = @ \cup {prompt.target}]
                  /\ live' = WithoutMember(live, prompt.target)
                  /\ lastOp' = Report("react_confirm", u, "banned", prompt.target, 0)
               \/ /\ lastOp' = Report("react_confirm", u, "forbidden", prompt.target, 0)
                  /\ UNCHANGED <<live, guild>>
       ELSE IF prompt.cmd = "fix"
       THEN /\ members' = FixMemberData(members, live, joinedAt)
            /\ prompt' = [cmd |-> "analyze", author |-> prompt.author, target |-> 0]
            /\ lastOp' = Report("react_confirm", u, "rebuilt", Len(live), Len(members))
            /\ UNCHANGED <<live, guild>>
       ELSE /\ members' = PerformSync(members, live, joinedAt).db
            /\ prompt' = NoPrompt
            /\ lastOp' = Report("react_confirm", u, "synced",
                                PerformSync(members, live, joinedAt).added,
                                PerformSync(members, live, joinedAt).updated)
            /\ UNCHANGED <<live, guild>>
    /\ UNCHANGED <<joinedAt, now, ordIn, ordOut, shown,
                   settings, leaderboard_data, session, settingsTasks, others>>

\* wait_for raises TimeoutError after 30 s: the command ends with nothing done
PromptTimeout ==
    /\ Handled
    /\ prompt # NoPrompt
    /\ prompt' = NoPrompt
    /\ lastOp' = Report("prompt_timeout", prompt.author, prompt.cmd, 0, 0)
    /\ UNCHANGED <<members, live, joinedAt, now, ordIn, ordOut, shown,
                   settings, guild, leaderboard_data, session, settingsTasks, others>>

\* Member events and presses, and the three commands that ask before they act
NextPrompt ==
    \/ \E u \in Users : SeqJoin(u)
    \/ \E u \in Users : SeqLeave(u)
    \/ \E u \in Users : SeqPress(u)
    \/ \E a, m \in Users : BanStart(a, m)
    \/ \E a \in Users : FixStart(a)
    \/ \E a \in Users : AnalyzeStart(a)
    \/ \E u \in Users, e \in {"confirm", "cancel", "other"} : ReactionAdd(u, e)
    \/ PromptTimeout

SpecPrompt == InitSeq /\ [][NextPrompt]_vars

\* ------------------------------------------------- commands that validate input

\* int(text) on the texts tried: the texts it parses, with their values; every
\* other text raises ValueError
IntValue == ("0" :> 0) @@ ("1" :> 1) @@ ("2" :> 2) @@ ("101" :> 101)
IsIntText(text) == text \in DOMAIN IntValue

\* datetime.fromisoformat and strptime(value, "%Y-%m-%d %H:%M:%S") on the texts
\* tried: "T1" is tick 1 written in ISO format, "D1" in the alternate format
IsoValue == ("T1" :> 1) @@ ("T2" :> 2)
AltValue == ("D1" :> 1) @@ ("D2" :> 2)

\* the texts given to clear, editinfo and the edit modal
Texts == {"0", "1", "2", "101", "T1", "D2", "max", "x", "true"}

\* One more command is handled, of at most MaxEditOps per behaviour
HandledEdit == ops < MaxEditOps /\ ops' = ops + 1

\* clear: "max" is 100 messages, and the amount must lie in 1..100
ClearMax == 100

\* clear's amount: [ok, amount] of args (no channel mention)
ClearAmount(args) ==
    IF args = "max" THEN [ok |-> TRUE, amount |-> ClearMax]
    ELSE IF IsIntText(args) THEN [ok |-> TRUE, amount |-> IntValue[args]]
    ELSE [ok |-> FALSE, amount |-> 0]

\* clear's range check passes
ClearInRange(amount) == ~(amount < 1 \/ amount > ClearMax)

\* clear in the command's channel: parse, range check, permission checks, then
\* purge(limit=amount + 1), the command's own message being the + 1
Clear(args) ==
    /\ HandledEdit
    /\ LET parsed == ClearAmount(args) IN
       IF ~parsed.ok
       THEN /\ lastOp' = Report("clear", 0, "invalid_number", 0, 0)
            /\ guild' = guild
       ELSE IF ~ClearInRange(parsed.amount)
       THEN /\ lastOp' = Report("clear", 0, "out_of_range", 0, 0)
            /\ guild' = guild
       ELSE \/ /\ lastOp' = Report("clear", 0, "no_permission", 0, 0)
               /\ guild' = guild
            \/ /\ lastOp' = Report("clear", 0, "cleared",
                                   IF parsed.amount <= guild.messages
                                   THEN parsed.amount ELSE guild.messages, 0)
               /\ guild' = [guild EXCEPT !.messages =
                                IF parsed.amount <= @ THEN @ - parsed.amount ELSE 0]
    /\ UNCHANGED <<members, live, joinedAt, now, ordIn, ordOut, shown,
                   settings, leaderboard_data, prompt, session, settingsTasks, others>>

\* timeout's durations: <<duration[:-1], duration[-1].lower()>>
Durations == {<<"1", "m">>, <<"2", "h">>, <<"1", "d">>, <<"1", "x">>,
              <<"x", "m">>, <<"", "h">>, <<"", "1">>}

SecondsPerUnit == ("m" :> 60) @@ ("h" :> 3600) @@ ("d" :> 86400)

\* timeout's unit is one of m, h, d
TimeoutUnitOk(unit) == unit \in DOMAIN SecondsPerUnit

\* timeout: int(duration[:-1]) (a ValueError lands in the except), the unit, then
\* member.timeout, which Discord may refuse
Timeout(m, duration) ==
    /\ HandledEdit
    /\ InList(live, m)
    /\ IF ~IsIntText(duration[1])
       THEN /\ lastOp' = Report("timeout", m, "failed", 0, 0)
            /\ guild' = guild
       ELSE IF ~TimeoutUnitOk(duration[2])
       THEN /\ lastOp' = Report("timeout", m, "invalid_unit", 0, 0)
            /\ guild' = guild
       ELSE \/ /\ lastOp' = Report("timeout", m, "failed", 0, 0)
               /\ guild' = guild
            \/ /\ lastOp' = Report("timeout", m, "timed_out",
                                   IntValue[duration[1]] * SecondsPerUnit[duration[2]], 0)
               /\ guild' = [guild EXCEPT !.timed_out = @ \cup
                        {<<m, IntValue[duration[1]] * SecondsPerUnit[duration[2]]>>}]
    /\ UNCHANGED <<members, live, joinedAt, now, ordIn, ordOut, shown,
                   settings, leaderboard_data, prompt, session, settingsTasks, others>>

\* editinfo's valid_fields with their types
ValidFields ==
    ("username" :> "str") @@ ("display_name" :> "str") @@ ("joined_at" :> "datetime")
    @@ ("join_position" :> "int") @@ ("is_bot" :> "bool") @@ ("habit_count" :> "int")
    @@ ("last_increment" :> "datetime")

\* the field names given to editinfo, and field.lower().replace(" ", "_")
FieldInputs == DOMAIN ValidFields \cup {"Habit Count", "level"}
NormalizeField(field) == IF field = "Habit Count" THEN "habit_count" ELSE field

\* editinfo's processed_value: [ok, value]; ok is FALSE where ValueError is raised
ProcessValue(type, value) ==
    IF type = "str" THEN [ok |-> TRUE, value |-> value]
    ELSE IF type = "int"
    THEN IF IsIntText(value) THEN [ok |-> TRUE, value |-> IntValue[value]]
         ELSE [ok |-> FALSE, value |-> 0]
    ELSE IF type = "bool"
    THEN [ok |-> TRUE, value |-> value \in {"true", "yes", "1", "y"}]
    ELSE IF value \in DOMAIN IsoValue THEN [ok |-> TRUE, value |-> IsoValue[value]]
    ELSE IF value \in DOMAIN AltValue THEN [ok |-> TRUE, value |-> AltValue[value]]
    ELSE [ok |-> FALSE, value |-> 0]

\* update_member's allowed_fields
AllowedFields == {"username", "display_name", "last_active", "last_increment"}

\* update_member(**kwargs): $set of the kwargs that are allowed fields, when any
\* is left; no upsert.  username and display_name are not part of Doc.
UpdateMemberFields(db, u, kwargs) ==
    LET update_fields == DOMAIN kwargs \cap AllowedFields
        i == FindOne(db, u)
    IN IF update_fields = {} \/ i = 0 THEN db
       ELSE [db EXCEPT ![i] = [g \in DOMAIN db[i] |->
                IF g \in update_fields THEN kwargs[g] ELSE db[i][g]]]

\* editinfo: the field is checked, the value parsed, update_member called.
\* update_member returns nothing, so the reply is always "No valid fields".
EditInfo(m, field, value) ==
    /\ HandledEdit
    /\ InList(live, m)
    /\ LET f == NormalizeField(field) IN
       IF f \notin DOMAIN ValidFields
       THEN /\ lastOp' = Report("editinfo", m, "invalid_field", 0, 0)
            /\ members' = members
       ELSE IF ~ProcessValue(ValidFields[f], value).ok
       THEN /\ lastOp' = Report("editinfo", m, "error_processing_value", 0, 0)
            /\ members' = members
       ELSE /\ lastOp' = Report("editinfo", m, "no_valid_fields", 0, 0)
            /\ members' = UpdateMemberFields(members, m,
                                f :> ProcessValue(ValidFields[f], value).value)
    /\ UNCHANGED <<live, joinedAt, now, ordIn, ordOut, shown, admin, others>>

\* EditMemberModal.on_submit's update_fields from the texts entered (an empty
\* text keeps the field; the names are not part of Doc)
ModalFields(habit_count, join_position, joined_at) ==
    (IF habit_count = "" THEN <<>> ELSE "habit_count" :> IntValue[habit_count])
    @@ (IF join_position = "" THEN <<>> ELSE "join_position" :> IntValue[join_position])
    @@ (IF joined_at = "" THEN <<>> ELSE "joined_at" :> AltValue[joined_at])

\* EditMemberModal.on_submit: each text is parsed in turn, a ValueError ends the
\* submit; then update_member(**update_fields) and "updated successfully"
ModalSubmit(m, habit_count, join_position, joined_at) ==
    /\ HandledEdit
    /\ IF habit_count # "" /\ ~IsIntText(habit_count)
       THEN /\ lastOp' = Report("modal", m, "habit_count_not_a_number", 0, 0)
            /\ members' = members
       ELSE IF join_position # "" /\ ~IsIntText(join_position)
       THEN /\ lastOp' = Report("modal", m, "join_position_not_a_number", 0, 0)
            /\ members' = members
       ELSE IF joined_at # "" /\ joined_at \notin DOMAIN AltValue
       THEN /\ lastOp' = Report("modal", m, "invalid_date", 0, 0)
            /\ members' = members
       ELSE IF DOMAIN ModalFields(habit_count, join_position, joined_at) = {}
       THEN /\ lastOp' = Report("modal", m, "no_changes", 0, 0)
            /\ members' = members
       ELSE /\ lastOp' = Report("modal", m, "updated", 0, 0)
            /\ members' = UpdateMemberFields(members, m,
                                ModalFields(habit_count, join_position, joined_at))
    /\ UNCHANGED <<live, joinedAt, now, ordIn, ordOut, shown, admin, others>>

\* The welcome messages tried (0 is the default template), with their lengths
WelcomeTexts == 1..3
WelcomeTextLen == (1 :> 12) @@ (2 :> 500) @@ (3 :> 501)
WelcomeMessageLimit == 500

\* A settings document: create_default_settings sets welcome_message and no
\* leaderboard reference; an upsert sets only the field it was given
SettingsDoc(message, message_id, channel_id) ==
    [welcome_message |-> message, leaderboard_message_id |-> message_id,
     leaderboard_channel_id |-> channel_id]
DefaultSettings == SettingsDoc(0, NoField, NoField)

\* update_server_setting: update_one with upsert=True on the first document of
\* the guild
UpdateServerSetting(st, setting, value) ==
    IF st = <<>>
    THEN <<[SettingsDoc(NoField, NoField, NoField) EXCEPT ![setting] = value]>>
    ELSE [st EXCEPT ![1][setting] = value]

WelcomeTooLongNever(text) == FALSE

\* welcome setmessage's check: len(message) > 500
WelcomeTooLong(text) == WelcomeTextLen[text] > WelcomeMessageLimit

\* welcome setmessage
SetWelcomeMessage(text) ==
    /\ HandledEdit
    /\ IF WelcomeTooLong(text)
       THEN /\ lastOp' = Report("setmessage", 0, "too_long", 0, 0)
            /\ settings' = settings
       ELSE /\ lastOp' = Report("setmessage", 0, "updated", 0, 0)
            /\ settings' = UpdateServerSetting(settings, "welcome_message", text)
    /\ UNCHANGED <<members, live, joinedAt, now, ordIn, ordOut, shown,
                   guild, leaderboard_data, prompt, session, settingsTasks, others>>

\* The bot is in a guild whose channel holds some messages; no document yet
InitEdit ==
    /\ live \in {lv \in Lists(Users, NumHumans + NumBots) :
                    Len(lv) = NumHumans + NumBots /\ Sorted(lv, [u \in Users |-> u]) = lv}
    /\ joinedAt = [u \in AllUsers |-> 0]
    /\ members = <<>>
    /\ now = 0
    /\ lastOp = NoReport
    /\ ordIn = <<>>
    /\ ordOut = <<>>
    /\ shown = NoView
    /\ settings = <<>>
    /\ \E n \in 0..MaxMessages : guild = [NoGuildEffects EXCEPT !.messages = n]
    /\ leaderboard_data = None
    /\ prompt = NoPrompt
    /\ session = NoSession
    /\ settingsTasks = 0
    /\ NoTasks

\* Presses (which create and fill documents) and the validating commands
NextEdit ==
    \/ \E u \in Users : SeqPress(u)
    \/ \E args \in Texts : Clear(args)
    \/ \E m \in Users, d \in Durations : Timeout(m, d)
    \/ \E m \in Users, f \in FieldInputs, v \in Texts : EditInfo(m, f, v)
    \/ \E m \in Users, h \in {"", "2", "x"}, p \in {"", "1", "x"}, j \in {"", "D1", "x"} :
            ModalSubmit(m, h, p, j)
    \/ \E text \in WelcomeTexts : SetWelcomeMessage(text)

SpecEdit == InitEdit /\ [][NextEdit]_vars

\* ------------------------------------------- settings and the leaderboard message

\* One more event or command is handled, of at most MaxBoardOps per behaviour
HandledBoard == ops < MaxBoardOps /\ ops' = ops + 1

\* settings.get(field) on the guild's first document: None when the field is absent
SettingOf(st, field) ==
    IF st = <<>> \/ st[1][field] = NoField THEN None ELSE st[1][field]

\* get_server_settings with no other task between its find_one and its insert_one
GetServerSettings(st) == IF st = <<>> THEN <<DefaultSettings>> ELSE st

\* "if message_id and channel_id"
HasLeaderboardRef(st) ==
    SettingOf(st, "leaderboard_message_id") # None /\ SettingOf(st, "leaderboard_channel_id") # None

ClearLeaderboardRefMessageOnly(st) ==
    UpdateServerSetting(st, "leaderboard_message_id", None)

\* the NotFound cleanup: two update_server_setting calls
ClearLeaderboardRef(st) ==
    UpdateServerSetting(UpdateServerSetting(st, "leaderboard_message_id", None),
                        "leaderboard_channel_id", None)

\* on_guild_join: create_default_settings inserts a document
GuildJoin ==
    /\ HandledBoard
    /\ ~guild.bot_in
    /\ guild' = [guild EXCEPT !.bot_in = TRUE]
    /\ settings' = Append(settings, DefaultSettings)
    /\ lastOp' = Report("guild_join", 0, "ok", 0, 0)
    /\ UNCHANGED <<members, live, joinedAt, now, ordIn, ordOut, shown,
                   leaderboard_data, prompt, session, settingsTasks, others>>

\* The bot is removed from the guild: no handler, the documents stay
GuildLeave ==
    /\ HandledBoard
    /\ guild.bot_in
    /\ guild' = [guild EXCEPT !.bot_in = FALSE]
    /\ lastOp' = Report("guild_leave", 0, "ok", 0, 0)
    /\ UNCHANGED <<members, live, joinedAt, now, ordIn, ordOut, shown,
                   settings, leaderboard_data, prompt, session, settingsTasks, others>>

\* get_server_settings (a welcome command or on_member_join): find_one; when it
\* finds nothing the call goes on to insert the defaults
GetSettingsFind ==
    /\ HandledBoard
    /\ guild.bot_in
    /\ settingsTasks' = IF settings = <<>> THEN settingsTasks + 1 ELSE settingsTasks
    /\ lastOp' = Report("get_settings", 0, IF settings = <<>> THEN "absent" ELSE "found", 0, 0)
    /\ UNCHANGED <<members, live, joinedAt, now, ordIn, ordOut, shown,
                   settings, guild, leaderboard_data, prompt, session, others>>

\* get_server_settings: create_default_settings' insert_one
GetSettingsInsert ==
    /\ settingsTasks > 0
    /\ settingsTasks' = settingsTasks - 1
    /\ settings' = Append(settings, DefaultSettings)
    /\ lastOp' = Report("get_settings", 0, "inserted", 0, 0)
    /\ UNCHANGED <<members, live, joinedAt, now, ordIn, ordOut, shown,
                   guild, leaderboard_data, prompt, session, others, ops>>

\* leaderboard in channel c: a stored message that still exists ends the command;
\* one that is gone is cleaned up; then a new message is sent and stored
Leaderboard(c) ==
    /\ HandledBoard
    /\ guild.bot_in
    /\ LET st == GetServerSettings(settings)
           message_id == SettingOf(st, "leaderboard_message_id")
       IN IF HasLeaderboardRef(st) /\ message_id \in guild.posts
          THEN /\ settings' = st
               /\ lastOp' = Report("leaderboard", 0, "exists", message_id, 0)
               /\ UNCHANGED <<guild, leaderboard_data>>
          ELSE /\ guild.sent < MaxPosts
               /\ guild' = [guild EXCEPT !.sent = @ + 1, !.posts = @ \cup {guild.sent + 1}]
               /\ settings' = UpdateServerSetting(
                        UpdateServerSetting(
                            IF HasLeaderboardRef(st) THEN ClearLeaderboardRef(st) ELSE st,
                            "leaderboard_channel_id", c),
                        "leaderboard_message_id", guild.sent + 1)
               /\ leaderboard_data' = [channel_id |-> c, message_id |-> guild.sent + 1]
               /\ lastOp' = Report("leaderboard", 0,
                                   IF HasLeaderboardRef(st) THEN "recreated" ELSE "created",
                                   guild.sent + 1, 0)
    /\ UNCHANGED <<members, live, joinedAt, now, ordIn, ordOut, shown,
                   prompt, session, settingsTasks, others>>

\* refresh_leaderboard
RefreshLeaderboard ==
    /\ HandledBoard
    /\ guild.bot_in
    /\ LET st == GetServerSettings(settings)
           message_id == SettingOf(st, "leaderboard_message_id")
       IN IF ~HasLeaderboardRef(st)
          THEN /\ settings' = st
               /\ lastOp' = Report("refresh", 0, "no_leaderboard", 0, 0)
               /\ UNCHANGED leaderboard_data
          ELSE IF message_id \in guild.posts
          THEN /\ settings' = st
               /\ lastOp' = Report("refresh", 0, "refreshed", message_id, 0)
               /\ UNCHANGED leaderboard_data
          ELSE /\ settings' = ClearLeaderboardRef(st)
               /\ leaderboard_data' = None
               /\ lastOp' = Report("refresh", 0, "cleaned", message_id, 0)
    /\ UNCHANGED <<members, live, joinedAt, now, ordIn, ordOut, shown,
                   guild, prompt, session, settingsTasks, others>>

\* restore_leaderboard_views' loop over the documents the find returned, on
\* [st, data, restored, cleaned]: a document with no channel field ends the loop
\* (KeyError), a message that exists is put into leaderboard_data, for one that
\* is gone the stored reference is cleared
RECURSIVE RestoreLoop(_, _, _, _)
RestoreLoop(docs, i, acc, posts) ==
    IF i > Len(docs) THEN acc
    ELSE IF docs[i].leaderboard_message_id \in {None, NoField}
    THEN RestoreLoop(docs, i + 1, acc, posts)
    ELSE IF docs[i].leaderboard_channel_id = NoField THEN acc
    ELSE IF docs[i].leaderboard_message_id \in posts
    THEN RestoreLoop(docs, i + 1,
            [acc EXCEPT !.data = [channel_id |-> docs[i].leaderboard_channel_id,
                                  message_id |-> docs[i].leaderboard_message_id],
                        !.restored = @ + 1], posts)
    ELSE RestoreLoop(docs, i + 1,
            [acc EXCEPT !.st = ClearLeaderboardRef(acc.st), !.cleaned = @ + 1], posts)

\* The bot restarts: a new Players cog with an empty leaderboard_data, whose
\* cog_load runs restore_leaderboard_views
CogLoad ==
    /\ HandledBoard
    /\ guild.bot_in
    /\ LET done == RestoreLoop(settings, 1,
                        [st |-> settings, data |-> None, restored |-> 0, cleaned |-> 0],
                        guild.posts)
       IN /\ settings' = done.st
          /\ leaderboard_data' = done.data
          /\ lastOp' = Report("restore", 0, IF done.cleaned > 0 THEN "cleaned" ELSE "ok",
                              done.restored, done.cleaned)
    /\ UNCHANGED <<members, live, joinedAt, now, ordIn, ordOut, shown,
                   guild, prompt, session, settingsTasks, others>>

\* Somebody deletes a leaderboard message
DeleteMessage(id) ==
    /\ HandledBoard
    /\ id \in guild.posts
    /\ guild' = [guild EXCEPT !.posts = @ \ {id}]
    /\ lastOp' = Report("delete_message", 0, "ok", id, 0)
    /\ UNCHANGED <<members, live, joinedAt, now, ordIn, ordOut, shown,
                   settings, leaderboard_data, prompt, session, settingsTasks, others>>

\* The bot is started in a guild it may have been added to while it was down
InitBoard ==
    /\ live \in {lv \in Lists(Users, NumHumans + NumBots) :
                    Len(lv) = NumHumans + NumBots /\ Sorted(lv, [u \in Users |-> u]) = lv}
    /\ joinedAt = [u \in AllUsers |-> 0]
    /\ members = <<>>
    /\ now = 0
    /\ lastOp = NoReport
    /\ ordIn = <<>>
    /\ ordOut = <<>>
    /\ shown = NoView
    /\ settings = <<>>
    /\ \E b \in BOOLEAN : guild = [NoGuildEffects EXCEPT !.bot_in = b]
    /\ leaderboard_data = None
    /\ prompt = NoPrompt
    /\ session = NoSession
    /\ settingsTasks = 0
    /\ NoTasks

\* Guild joins and leaves, settings reads and writes, the leaderboard commands,
\* restarts, and deletions of the leaderboard message
NextBoard ==
    \/ GuildJoin
    \/ GuildLeave
    \/ GetSettingsFind
    \/ GetSettingsInsert
    \/ \E text \in WelcomeTexts : guild.bot_in /\ SetWelcomeMessage(text)
    \/ \E c \in 1..NumChannels : Leaderboard(c)
    \/ RefreshLeaderboard
    \/ CogLoad
    \/ \E id \in 1..MaxPosts : DeleteMessage(id)

SpecBoard == InitBoard /\ [][NextBoard]_vars

\* ------------------------------------------------------------ the ordering alone

Unset == <<>>

InitOrder ==
    /\ ordIn \in Lists(OrdUsers, MaxLive)
    /\ \E k \in [1..Len(ordIn) -> 0..MaxKey] :
            joinedAt = [u \in AllUsers |->
                            IF InList(ordIn, u)
                            THEN k[CHOOSE i \in 1..Len(ordIn) : ordIn[i] = u] ELSE 0]
    /\ ordOut = Unset
    /\ shown = NoView
    /\ NoAdmin
    /\ members = <<>>
    /\ live = <<>>
    /\ now = 0
    /\ lastOp = NoReport
    /\ NoTasks

\* fix_member_data's ordering applied to the live list
ApplyOrdering ==
    /\ ordOut = Unset
    /\ ordIn # <<>>
    /\ ordOut' = RebuildPositions(ordIn, joinedAt)
    /\ UNCHANGED <<members, live, joinedAt, now, lastOp, ordIn, shown, admin, tasks>>

NextOrder == ApplyOrdering

SpecOrder == InitOrder /\ [][NextOrder]_vars

\* ------------------------------------------- sync on guilds with several bots

\* The bot is added to a guild of up to MaxLive humans and bots; its database is empty.
InitSync ==
    /\ live \in Lists(OrdUsers, MaxLive)
    /\ \E k \in [1..Len(live) -> 0..MaxKey] :
            joinedAt = [u \in AllUsers |->
                            IF InList(live, u)
                            THEN k[CHOOSE i \in 1..Len(live) : live[i] = u] ELSE 0]
    /\ members = <<>>
    /\ now = 0
    /\ lastOp = NoReport
    /\ ordIn = <<>>
    /\ ordOut = <<>>
    /\ shown = NoView
    /\ NoAdmin
    /\ NoTasks

\* Level Up presses (which create the presser's document) and sync commands
NextSync ==
    \/ \E u \in OrdUsers : SeqPress(u)
    \/ SeqSync

SpecSync == InitSync /\ [][NextSync]_vars

\* ------------------------------------------------- leaderboard and profile

\* the users that press Profile: user i holds document i of the store, if there is one
RankUsers == 1..MaxDocs

RankingsUnfiltered(db) ==
    LET R == {i \in 1..Len(db) : db[i].habit_count >= 0} IN
    {r \in [1..Cardinality(R) -> R] :
        /\ \A a, b \in 1..Cardinality(R) : a # b => r[a] # r[b]
        /\ \A a, b \in 1..Cardinality(R) :
                a < b => db[r[a]].habit_count >= db[r[b]].habit_count}

\* members.find({"habit_count": {"$gte": 1}}).sort("habit_count", -1).to_list(): the
\* lists (of document indices) the query may return.  Documents with equal
\* habit_count come in an order the sort does not fix.
Rankings(db) ==
    LET R == {i \in 1..Len(db) : db[i].habit_count >= 1} IN
    {r \in [1..Cardinality(R) -> R] :
        /\ \A a, b \in 1..Cardinality(R) : a # b => r[a] # r[b]
        /\ \A a, b \in 1..Cardinality(R) :
                a < b => db[r[a]].habit_count >= db[r[b]].habit_count}

\* all_members[offset:offset + limit]
Slice(s, offset, limit) ==
    IF offset >= Len(s) THEN <<>>
    ELSE SubSeq(s, offset + 1, IF offset + limit > Len(s) THEN Len(s) ELSE offset + limit)

\* generate_leaderboard_embed(offset, limit) on the query's result: the table rows
\* (rank, member, level), or one of the two messages without a table
LeaderboardPage(db, all_members, offset, limit) ==
    IF all_members = <<>> THEN [kind |-> "no_members", offset |-> offset, rows |-> <<>>]
    ELSE IF Slice(all_members, offset, limit) = <<>>
    THEN [kind |-> "empty_page", offset |-> offset, rows |-> <<>>]
    ELSE [kind |-> "rows", offset |-> offset,
          rows |-> [j \in 1..Len(Slice(all_members, offset, limit)) |->
                        [rank |-> offset + j,
                         doc |-> Slice(all_members, offset, limit)[j],
                         user |-> db[Slice(all_members, offset, limit)[j]].user_id,
                         level |-> HabitOf(db[Slice(all_members, offset, limit)[j]])]]]

\* ProfileButton.callback on its query's result: next(m for m in members if
\* m["user_id"] == user_id) and members.index(user_data) + 1
ProfileOf(db, ranked, u) ==
    LET S == {k \in 1..Len(ranked) : db[ranked[k]].user_id = u} IN
    IF ranked = <<>> THEN [user |-> u, res |-> "no_ranked_members", rank |-> 0, level |-> 0]
    ELSE IF S = {} THEN [user |-> u, res |-> "not_ranked", rank |-> 0, level |-> 0]
    ELSE LET k == CHOOSE x \in S : \A y \in S : x <= y IN
         [user |-> u, res |-> "rank", rank |-> k, level |-> HabitOf(db[ranked[k]])]

\* The document of user u with habit_count h (NoField: without one), as far as the
\* leaderboard reads it
RankDoc(u, h) == Doc(u, 0, u, FALSE, h, IF h >= 1 THEN 0 ELSE None)

\* A store of up to MaxDocs documents, one per user, and the page size the
\* leaderboard is viewed with
InitRank ==
    /\ \E n \in 0..MaxDocs : \E h \in [1..n -> {NoField} \cup (0..MaxHabit)] :
            members = [i \in 1..n |-> RankDoc(i, h[i])]
    /\ \E l \in 1..MaxLimit : shown = [NoView EXCEPT !.limit = l]
    /\ NoAdmin
    /\ live = <<>>
    /\ joinedAt = [u \in AllUsers |-> 0]
    /\ now = 0
    /\ lastOp = NoReport
    /\ ordIn = <<>>
    /\ ordOut = <<>>
    /\ NoTasks

\* The leaderboard is drawn at the next offset (0, limit, 2 * limit, ...), until a
\* page without rows has been shown.  Every page runs the query anew; shown.ranking
\* keeps the result the first page was drawn from.
ViewPage ==
    /\ IF shown.pages = <<>> THEN TRUE ELSE shown.pages[Len(shown.pages)].kind = "rows"
    /\ \E r \in Rankings(members) :
        shown' = [shown EXCEPT
                    !.ranking = IF shown.pages = <<>> THEN r ELSE @,
                    !.pages = Append(@, LeaderboardPage(members, r,
                                        Len(shown.pages) * shown.limit, shown.limit))]
    /\ UNCHANGED <<members, live, joinedAt, now, lastOp, ordIn, ordOut, admin, tasks>>

\* A user presses Profile
ViewProfile(u) ==
    /\ shown.profile = <<>>
    /\ \E r \in Rankings(members) :
        shown' = [shown EXCEPT !.profile = <<ProfileOf(members, r, u)>>]
    /\ UNCHANGED <<members, live, joinedAt, now, lastOp, ordIn, ordOut, admin, tasks>>

NextRank ==
    \/ ViewPage
    \/ \E u \in RankUsers : ViewProfile(u)

SpecRank == InitRank /\ [][NextRank]_vars

\* ------------------------------------------------------- the paginated session

\* One more press or event is handled, of at most MaxPageOps per behaviour
HandledPages == ops < MaxPageOps /\ ops' = ops + 1

\* count_documents({"habit_count": {"$gte": 1}})
CountRanked(db) == Cardinality({i \in 1..Len(db) : db[i].habit_count >= 1})

\* generate_leaderboard_embed(offset, limit) on the query's result: the page with
\* total_members and, when total_members > limit, the footer's page numbers
LeaderboardEmbed(db, all_members, offset, limit) ==
    [page |-> LeaderboardPage(db, all_members, offset, limit),
     total |-> Len(all_members),
     footer |-> IF LeaderboardPage(db, all_members, offset, limit).kind = "rows"
                   /\ Len(all_members) > limit
                THEN <<offset \div limit + 1, (Len(all_members) - 1) \div limit + 1>>
                ELSE <<>>]

\* ShowMoreButton.callback: with more ranked members than one page holds, the second
\* page is sent with a PaginatedLeaderboardView owned by the presser
ShowMore(u) ==
    /\ HandledPages
    /\ ~session.open
    /\ IF CountRanked(members) <= ShowMoreLimit
       THEN /\ session' = session
            /\ lastOp' = Report("show_more", u, "no_more_pages", 0, 0)
       ELSE \E r \in Rankings(members) :
            /\ session' = [open |-> TRUE, offset |-> ShowMoreLimit, limit |-> ShowMoreLimit,
                           user |-> u,
                           page |-> LeaderboardEmbed(members, r, ShowMoreLimit, ShowMoreLimit)]
            /\ lastOp' = Report("show_more", u, "opened", ShowMoreLimit, 0)
    /\ UNCHANGED <<members, live, joinedAt, now, ordIn, ordOut, shown,
                   settings, guild, leaderboard_data, prompt, settingsTasks, others>>

\* "if view.user and interaction.user != view.user"
NotOpener(view, u) == view.user # 0 /\ u # view.user

\* PreviousPageButton.callback
PreviousPage(u) ==
    /\ HandledPages
    /\ session.open
    /\ IF NotOpener(session, u)
       THEN /\ session' = session
            /\ lastOp' = Report("previous", u, "not_yours", session.offset, 0)
       ELSE IF session.offset <= 0
       THEN /\ session' = session
            /\ lastOp' = Report("previous", u, "first_page", session.offset, 0)
       ELSE LET offset == IF session.offset - session.limit > 0
                          THEN session.offset - session.limit ELSE 0 IN
            \E r \in Rankings(members) :
            /\ session' = [session EXCEPT !.offset = offset,
                                !.page = LeaderboardEmbed(members, r, offset, session.limit)]
            /\ lastOp' = Report("previous", u, "shown", offset, 0)
    /\ UNCHANGED <<members, live, joinedAt, now, ordIn, ordOut, shown,
                   settings, guild, leaderboard_data, prompt, settingsTasks, others>>

NextRejectsPastEnd(next_offset, total_members) == next_offset > total_members

\* NextPageButton.callback's check: next_offset >= total_members
NextRejects(next_offset, total_members) == next_offset >= total_members

\* NextPageButton.callback
NextPage(u) ==
    /\ HandledPages
    /\ session.open
    /\ IF NotOpener(session, u)
       THEN /\ session' = session
            /\ lastOp' = Report("next", u, "not_yours", session.offset, 0)
       ELSE IF NextRejects(session.offset + session.limit, CountRanked(members))
       THEN /\ session' = session
            /\ lastOp' = Report("next", u, "last_page", session.offset, 0)
       ELSE \E r \in Rankings(members) :
            /\ session' = [session EXCEPT !.offset = session.offset + session.limit,
                                !.page = LeaderboardEmbed(members, r,
                                            session.offset + session.limit, session.limit)]
            /\ lastOp' = Report("next", u, "shown", session.offset + session.limit, 0)
    /\ UNCHANGED <<members, live, joinedAt, now, ordIn, ordOut, shown,
                   settings, guild, leaderboard_data, prompt, settingsTasks, others>>

\* The view times out (300 s): its buttons are disabled
SessionTimeout ==
    /\ HandledPages
    /\ session.open
    /\ session' = NoSession
    /\ lastOp' = Report("view_timeout", 0, "ok", 0, 0)
    /\ UNCHANGED <<members, live, joinedAt, now, ordIn, ordOut, shown,
                   settings, guild, leaderboard_data, prompt, settingsTasks, others>>

\* A member with a document leaves (on_member_remove): the ranked set may shrink
PagesLeave(u) ==
    /\ HandledPages
    /\ HasDoc(members, u)
    /\ members' = remove_member(members, u)
    /\ lastOp' = Report("leave", u, "ok", 0, 0)
    /\ UNCHANGED <<live, joinedAt, now, ordIn, ordOut, shown, admin, others>>

\* A member at level 0 levels up (increment_habit's write): the ranked set grows
PagesLevelUp(u) ==
    /\ HandledPages
    /\ HasDoc(members, u) /\ HabitOf(DocOf(members, u)) = 0
    /\ members' = IncrementWrite(members, u, now)
    /\ lastOp' = Report("press", u, "success", 1, 0)
    /\ UNCHANGED <<live, joinedAt, now, ordIn, ordOut, shown, admin, others>>

\* A store of up to MaxRanked documents, one per user, at level 0 or 1
InitPages ==
    /\ \E n \in 0..MaxRanked : \E h \in [1..n -> 0..1] :
            members = [i \in 1..n |-> RankDoc(i, h[i])]
    /\ shown = NoView
    /\ NoAdmin
    /\ live = <<>>
    /\ joinedAt = [u \in AllUsers |-> 0]
    /\ now = 0
    /\ lastOp = NoReport
    /\ ordIn = <<>>
    /\ ordOut = <<>>
    /\ NoTasks

NextPages ==
    \/ \E u \in 1..NumPageUsers : ShowMore(u)
    \/ \E u \in 1..NumPageUsers : PreviousPage(u)
    \/ \E u \in 1..NumPageUsers : NextPage(u)
    \/ SessionTimeout
    \/ \E u \in 1..MaxRanked : PagesLeave(u)
    \/ \E u \in 1..MaxRanked : PagesLevelUp(u)

SpecPages == InitPages /\ [][NextPages]_vars


\* ------------------------------------- handlers interleaved at every await

\* The bot is added to a guild that already has members; its database is empty.
Init ==
    /\ live \in Lists(ConcUsers, NumConcHumans + NumConcBots)
    /\ joinedAt = [u \in AllUsers |-> 0]
    /\ members = <<>>
    /\ now = 0
    /\ lastOp = NoReport
    /\ ordIn = <<>>
    /\ ordOut = <<>>
    /\ shown = NoView
    /\ NoAdmin
    /\ NoTasks

\* One more event or command is dispatched, of at most MaxOps per behaviour
Started == ops < MaxOps /\ ops' = ops + 1

\* A member joins: discord.py starts main.py's on_member_join and the welcome cog's
MemberJoin(u) ==
    /\ Started
    /\ ~InList(live, u)
    /\ \A h \in Handlers : joinTasks[h][u].pc = "idle"
    /\ live' = Append(live, u)
    /\ joinedAt' = [joinedAt EXCEPT ![u] = now]
    /\ joinTasks' = [h \in Handlers |->
                        [joinTasks[h] EXCEPT ![u] = [pc |-> "count", joined |-> now, jp |-> 0]]]
    /\ UNCHANGED <<members, now, lastOp, ordIn, ordOut, shown, admin, press, leaveTasks, sync, rebuild>>

\* add_member, first await: calculate_join_position's count_documents
JoinCount(h, u) ==
    /\ joinTasks[h][u].pc = "count"
    /\ joinTasks' = [joinTasks EXCEPT ![h][u].pc = "upsert",
                        ![h][u].jp = calculate_join_position(members, joinTasks[h][u].joined)]
    /\ UNCHANGED <<members, live, joinedAt, now, lastOp, ordIn, ordOut, shown, admin,
                   press, leaveTasks, sync, rebuild, ops>>

\* add_member, second await: the upsert
JoinUpsert(h, u) ==
    /\ joinTasks[h][u].pc = "upsert"
    /\ members' = AddMemberUpsert(members, u, joinTasks[h][u].joined,
                                  joinTasks[h][u].jp, IsBot(u))
    /\ joinTasks' = [joinTasks EXCEPT ![h][u] = IdleJoin]
    /\ UNCHANGED <<live, joinedAt, now, lastOp, ordIn, ordOut, shown, admin,
                   press, leaveTasks, sync, rebuild, ops>>

\* A member leaves: discord.py starts on_member_remove
MemberLeave(u) ==
    /\ Started
    /\ InList(live, u)
    /\ leaveTasks[u] = "idle"
    /\ live' = SelectSeq(live, LAMBDA x : x # u)
    /\ leaveTasks' = [leaveTasks EXCEPT ![u] = "delete"]
    /\ UNCHANGED <<members, joinedAt, now, lastOp, ordIn, ordOut, shown, admin,
                   press, joinTasks, sync, rebuild>>

\* on_member_remove: remove_member's delete_one
LeaveDelete(u) ==
    /\ leaveTasks[u] = "delete"
    /\ members' = remove_member(members, u)
    /\ leaveTasks' = [leaveTasks EXCEPT ![u] = "idle"]
    /\ UNCHANGED <<live, joinedAt, now, lastOp, ordIn, ordOut, shown, admin,
                   press, joinTasks, sync, rebuild, ops>>

\* IncrementButton.callback: get_member; with a document, now and the cooldown check
\* (the press takes the first free task slot)
PressGetMember(p, u) ==
    /\ Started
    /\ press[p].pc = "idle" /\ press[p].res = "none"
    /\ \A q \in 1..(p - 1) : press[q] # IdlePress
    /\ InList(live, u) /\ IsHuman(u)
    /\ press' = [press EXCEPT ![p] =
            IF ~HasDoc(members, u)
            THEN [IdlePress EXCEPT !.pc = "add_count", !.user = u,
                                   !.joined = joinedAt[u]]
            ELSE [IdlePress EXCEPT
                    !.pc = IF HandlerRejects(PressLast(members, u), now)
                           THEN "idle" ELSE "inc_read",
                    !.res = IF HandlerRejects(PressLast(members, u), now)
                            THEN "rejected" ELSE "none",
                    !.user = u, !.joined = joinedAt[u],
                    !.last = PressLast(members, u),
                    !.count = PressCount(members, u),
                    !.t = now]]
    /\ UNCHANGED <<members, live, joinedAt, now, lastOp, ordIn, ordOut, shown, admin,
                   joinTasks, leaveTasks, sync, rebuild>>

\* the create-if-absent path, add_member's count_documents
PressAddCount(p) ==
    /\ press[p].pc = "add_count"
    /\ press' = [press EXCEPT ![p].pc = "add_upsert",
                    ![p].jp = calculate_join_position(members, press[p].joined)]
    /\ UNCHANGED <<members, live, joinedAt, now, lastOp, ordIn, ordOut, shown, admin,
                   joinTasks, leaveTasks, sync, rebuild, ops>>

\* the create-if-absent path, add_member's upsert; then member_data is
\* {"last_increment": None, "habit_count": 0} and now is read
PressAddUpsert(p) ==
    /\ press[p].pc = "add_upsert"
    /\ members' = AddMemberUpsert(members, press[p].user, press[p].joined,
                                  press[p].jp, IsBot(press[p].user))
    /\ press' = [press EXCEPT ![p].pc = "inc_read", ![p].last = None,
                              ![p].count = 0, ![p].t = now]
    /\ UNCHANGED <<live, joinedAt, now, lastOp, ordIn, ordOut, shown, admin,
                   joinTasks, leaveTasks, sync, rebuild, ops>>

\* increment_habit: get_member, its own now, the date check.  user.get on None
\* raises, which the handler's except reports as an error.
PressIncRead(p) ==
    /\ press[p].pc = "inc_read"
    /\ press' = [press EXCEPT ![p] =
            IF ~HasDoc(members, press[p].user)
            THEN [@ EXCEPT !.pc = "idle", !.res = "error"]
            ELSE IF AlreadyIncremented(DocOf(members, press[p].user), now)
            THEN [@ EXCEPT !.pc = "update", !.t2 = now, !.res = "already_incremented"]
            ELSE [@ EXCEPT !.pc = "inc_write", !.t2 = now]]
    /\ UNCHANGED <<members, live, joinedAt, now, lastOp, ordIn, ordOut, shown, admin,
                   joinTasks, leaveTasks, sync, rebuild, ops>>

\* increment_habit: the $inc / $set update_one
PressIncWrite(p) ==
    /\ press[p].pc = "inc_write"
    /\ members' = IncrementWrite(members, press[p].user, press[p].t2)
    /\ press' = [press EXCEPT ![p].pc = "update", ![p].res = "incremented"]
    /\ UNCHANGED <<live, joinedAt, now, lastOp, ordIn, ordOut, shown, admin,
                   joinTasks, leaveTasks, sync, rebuild, ops>>

\* the handler ignores increment_habit's result: update_member(last_increment=now),
\* then the leaderboard is redrawn and "Level up!" is sent
PressUpdateMember(p) ==
    /\ press[p].pc = "update"
    /\ members' = update_member(members, press[p].user, press[p].t)
    /\ press' = [press EXCEPT ![p].pc = "idle",
                    ![p].res = IF press[p].res = "incremented"
                               THEN "success" ELSE "success_not_incremented"]
    /\ UNCHANGED <<live, joinedAt, now, lastOp, ordIn, ordOut, shown, admin,
                   joinTasks, leaveTasks, sync, rebuild, ops>>

\* the interaction is over
PressForget(p) ==
    /\ press[p].pc = "idle" /\ press[p].res # "none"
    /\ press' = [press EXCEPT ![p] = IdlePress]
    /\ UNCHANGED <<members, live, joinedAt, now, lastOp, ordIn, ordOut, shown, admin,
                   joinTasks, leaveTasks, sync, rebuild, ops>>

\* _perform_sync: guild.members is read and ordered
SyncStart ==
    /\ Started
    /\ sync.pc = "idle"
    /\ sync' = [pc |-> IF live = <<>> THEN "idle" ELSE "find",
                ordered |-> OrderedMembers(live, joinedAt),
                key |-> IF live = <<>> THEN <<>> ELSE joinedAt,
                i |-> IF live = <<>> THEN 0 ELSE 1, added |-> 0, updated |-> 0]
    /\ UNCHANGED <<members, live, joinedAt, now, lastOp, ordIn, ordOut, shown, admin,
                   press, joinTasks, leaveTasks, rebuild>>

\* _perform_sync: find_one of member i
SyncFind ==
    /\ sync.pc = "find"
    /\ sync' = [sync EXCEPT !.pc = IF HasDoc(members, sync.ordered[sync.i])
                                   THEN "update" ELSE "insert"]
    /\ UNCHANGED <<members, live, joinedAt, now, lastOp, ordIn, ordOut, shown, admin,
                   press, joinTasks, leaveTasks, rebuild, ops>>

SyncAdvance(added, updated) ==
    IF sync.i = Len(sync.ordered) THEN IdleSync
    ELSE [sync EXCEPT !.pc = "find", !.i = sync.i + 1,
                      !.added = added, !.updated = updated]

\* _perform_sync: update_one of member i
SyncWriteUpdate ==
    /\ sync.pc = "update"
    /\ members' = SyncUpdate(members, sync.ordered[sync.i])
    /\ sync' = SyncAdvance(sync.added, sync.updated + 1)
    /\ UNCHANGED <<live, joinedAt, now, lastOp, ordIn, ordOut, shown, admin,
                   press, joinTasks, leaveTasks, rebuild, ops>>

\* _perform_sync: insert_one of member i
SyncWriteInsert ==
    /\ sync.pc = "insert"
    /\ members' = SyncInsert(members, sync.ordered, sync.i, sync.key)
    /\ sync' = SyncAdvance(sync.added + 1, sync.updated)
    /\ UNCHANGED <<live, joinedAt, now, lastOp, ordIn, ordOut, shown, admin,
                   press, joinTasks, leaveTasks, rebuild, ops>>

\* fix_member_data, confirmed: the find that snapshots the habit data
RebuildSnapshot ==
    /\ Started
    /\ rebuild.pc = "idle"
    /\ rebuild' = [IdleRebuild EXCEPT !.pc = "delete", !.snap = members]
    /\ UNCHANGED <<members, live, joinedAt, now, lastOp, ordIn, ordOut, shown, admin,
                   press, joinTasks, leaveTasks, sync>>

\* fix_member_data: delete_many; then guild.members is read and ordered
RebuildDelete ==
    /\ rebuild.pc = "delete"
    /\ members' = <<>>
    /\ rebuild' = IF live = <<>> THEN IdleRebuild
                  ELSE [rebuild EXCEPT !.pc = "insert",
                            !.ordered = OrderedMembers(live, joinedAt),
                            !.key = joinedAt, !.i = 1]
    /\ UNCHANGED <<live, joinedAt, now, lastOp, ordIn, ordOut, shown, admin,
                   press, joinTasks, leaveTasks, sync, ops>>

\* fix_member_data: insert_one of the member at position i
RebuildInsert ==
    /\ rebuild.pc = "insert"
    /\ members' = Append(members,
                         RebuildDoc(rebuild.snap, rebuild.ordered, rebuild.i, rebuild.key))
    /\ rebuild' = IF rebuild.i = Len(rebuild.ordered) THEN IdleRebuild
                  ELSE [rebuild EXCEPT !.i = rebuild.i + 1]
    /\ UNCHANGED <<live, joinedAt, now, lastOp, ordIn, ordOut, shown, admin,
                   press, joinTasks, leaveTasks, sync, ops>>

ClockTick ==
    /\ now < MaxTime
    /\ now' = now + 1
    /\ UNCHANGED <<members, live, joinedAt, lastOp, ordIn, ordOut, shown, admin, tasks>>

Next ==
    \/ \E u \in ConcUsers : MemberJoin(u)
    \/ \E h \in Handlers, u \in ConcUsers : JoinCount(h, u)
    \/ \E h \in Handlers, u \in ConcUsers : JoinUpsert(h, u)
    \/ \E u \in ConcUsers : MemberLeave(u)
    \/ \E u \in ConcUsers : LeaveDelete(u)
    \/ \E p \in 1..NumPress, u \in ConcUsers : PressGetMember(p, u)
    \/ \E p \in 1..NumPress : PressAddCount(p)
    \/ \E p \in 1..NumPress : PressAddUpsert(p)
    \/ \E p \in 1..NumPress : PressIncRead(p)
    \/ \E p \in 1..NumPress : PressIncWrite(p)
    \/ \E p \in 1..NumPress : PressUpdateMember(p)
    \/ \E p \in 1..NumPress : PressForget(p)
    \/ SyncStart
    \/ SyncFind
    \/ SyncWriteUpdate
    \/ SyncWriteInsert
    \/ RebuildSnapshot
    \/ RebuildDelete
    \/ RebuildInsert
    \/ ClockTick

Spec == Init /\ [][Next]_vars

\* ------------------------------------------------------------------ claims

\* C2: a press by a member whose last_increment is on the same UTC date as now is
\* rejected and leaves habit_count and last_increment (the whole store) unchanged.
C2_CooldownGate ==
    [][\A u \in Humans :
        (/\ SeqPress(u)
         /\ HasDoc(members, u)
         /\ PressLast(members, u) # None
         /\ DateOf(PressLast(members, u)) = DateOf(now))
        => (lastOp'.res = "rejected" /\ members' = members)]_vars

\* C2's case: a press, later on the day of a counted increment, was rejected
C2_Witness ==
    /\ lastOp.op = "press" /\ lastOp.res = "rejected"
    /\ HasDoc(members, lastOp.user)
    /\ DocOf(members, lastOp.user).habit_count >= 1
    /\ DocOf(members, lastOp.user).last_increment # None
    /\ DocOf(members, lastOp.user).last_increment < now
    /\ DateOf(DocOf(members, lastOp.user).last_increment) = DateOf(now)

\* C3: a press by a member whose last_increment is null or on an earlier UTC date
\* than now is accepted: habit_count goes up by exactly 1 and last_increment is
\* updated.
C3_EligibleAccepted ==
    [][\A u \in Humans :
        (/\ SeqPress(u)
         /\ \/ PressLast(members, u) = None
            \/ DateOf(PressLast(members, u)) < DateOf(now))
        => (/\ lastOp'.res = "success"
            /\ HasDoc(members', u)
            /\ HabitOf(DocOf(members', u)) = PressCount(members, u) + 1
            /\ DocOf(members', u).last_increment # PressLast(members, u)
            /\ DocOf(members', u).last_increment >= now)]_vars

HumanDocs(db) == {i \in 1..Len(db) : db[i].is_bot = FALSE}
BotDocs(db) == {i \in 1..Len(db) : db[i].is_bot = TRUE}

\* C7: the join_position values of the non-bot documents are exactly 1..N, without
\* duplicates, and ordered as joined_at (stated for documents whose joined_at differ).
C7_HumanPositionsDense ==
    (\A i, j \in HumanDocs(members) : i # j => members[i].joined_at # members[j].joined_at)
    => /\ {members[i].join_position : i \in HumanDocs(members)}
            = 1..Cardinality(HumanDocs(members))
       /\ \A i, j \in HumanDocs(members) :
            members[i].joined_at < members[j].joined_at
                => members[i].join_position < members[j].join_position

\* C8: every bot document's join_position is greater than every non-bot document's,
\* and bot documents have pairwise distinct positions ordered by joined_at
\* (stated for documents whose joined_at differ).
C8_BotsAfterHumans ==
    (\A i, j \in 1..Len(members) : i # j => members[i].joined_at # members[j].joined_at)
    =>
    /\ \A b \in BotDocs(members) : \A h \in HumanDocs(members) :
            members[b].join_position > members[h].join_position
    /\ \A b, c \in BotDocs(members) :
            /\ b # c => members[b].join_position # members[c].join_position
            /\ members[b].joined_at < members[c].joined_at
                => members[b].join_position < members[c].join_position

OrdHumansIn(lv) == {lv[i] : i \in {k \in 1..Len(lv) : IsHuman(lv[k])}}
OrdBotsIn(lv) == {lv[i] : i \in {k \in 1..Len(lv) : IsBot(lv[k])}}
IndexIn(lv, u) == CHOOSE i \in 1..Len(lv) : lv[i] = u

\* u comes before v in the ordering: earlier joined_at, or the same and earlier in the input
Before(lv, key, u, v) ==
    \/ key[u] < key[v]
    \/ key[u] = key[v] /\ IndexIn(lv, u) < IndexIn(lv, v)

\* C9: the rebuild's ordering gives the H humans exactly the positions 1..H and the B
\* bots exactly H+1..H+B, each group by joined_at ascending, ties in input order.
C9_OrderingPositions ==
    ordOut # Unset =>
        LET H == Cardinality(OrdHumansIn(ordIn))
            B == Cardinality(OrdBotsIn(ordIn))
        IN /\ {ordOut[u] : u \in OrdHumansIn(ordIn)} = 1..H
           /\ {ordOut[u] : u \in OrdBotsIn(ordIn)} = (H + 1)..(H + B)
           /\ \A u, v \in OrdHumansIn(ordIn) :
                Before(ordIn, joinedAt, u, v) => ordOut[u] < ordOut[v]
           /\ \A u, v \in OrdBotsIn(ordIn) :
                Before(ordIn, joinedAt, u, v) => ordOut[u] < ordOut[v]

\* C9's case: three humans (two joined at the same time, one later) and a bot that
\* joined no later than any of them, listed in another order, get 1, 2, 3 and the bot 4
C9_Witness ==
    /\ ordOut # Unset
    /\ ordIn = <<11, 3, 1, 2>>
    /\ joinedAt[11] = 0 /\ joinedAt[1] = 0 /\ joinedAt[2] = 0 /\ joinedAt[3] = 1
    /\ ordOut[1] = 1 /\ ordOut[2] = 2 /\ ordOut[3] = 3 /\ ordOut[11] = 4

\* C10: a sync that follows a sync, with nothing in between, adds no document,
\* reports added = 0 and updated = N, and leaves every join_position as it was.
C10_SyncIdempotent ==
    [][(lastOp.op = "sync" /\ SeqSync)
        => /\ lastOp'.a = 0
           /\ lastOp'.b = Len(live)
           /\ Len(members') = Len(members)
           /\ \A i \in 1..Len(members) :
                /\ members'[i].user_id = members[i].user_id
                /\ members'[i].join_position = members[i].join_position]_vars

\* C10's case: the second of two syncs in a row has run, over at least two live
\* members, one of which the first sync had inserted
C10_Witness ==
    /\ lastOp.op = "sync" /\ lastOp.after = "sync"
    /\ lastOp.a = 0 /\ lastOp.b = Len(live) /\ Len(live) >= 2
    /\ \E i \in 1..Len(members) : members[i].habit_count = NoField

\* C1: two Level Up presses of one user that both started from habit_count = n and
\* ran concurrently do not both increase it on one UTC day: the stored habit_count
\* does not reach n + 2.
C1_AtMostOneIncrement ==
    \A p, q \in 1..NumPress :
        (/\ p # q
         /\ press[p].user = press[q].user /\ press[p].user # 0
         /\ press[p].res \in {"incremented", "success"}
         /\ press[q].res \in {"incremented", "success"}
         /\ press[p].count = press[q].count
         /\ DateOf(press[p].t2) = DateOf(press[q].t2)
         /\ HasDoc(members, press[p].user))
        => HabitOf(DocOf(members, press[p].user)) < press[p].count + 2

\* C4: on every document that stays, habit_count never decreases and changes only by
\* +1; add_member on a key that holds a document does not reset it.
C4_HabitOnlyIncrements ==
    [][\A u \in ConcUsers :
        (HasDoc(members, u) /\ HasDoc(members', u))
        => \/ HabitOf(DocOf(members', u)) = HabitOf(DocOf(members, u))
           \/ HabitOf(DocOf(members', u)) = HabitOf(DocOf(members, u)) + 1]_vars

\* C5: once set, last_increment is never written with a smaller value nor reset to null.
C5_LastIncrementMonotone ==
    [][\A u \in ConcUsers :
        (/\ HasDoc(members, u) /\ HasDoc(members', u)
         /\ DocOf(members, u).last_increment # None)
        => /\ DocOf(members', u).last_increment # None
           /\ DocOf(members', u).last_increment >= DocOf(members, u).last_increment]_vars

\* C6: at most one document per (user_id, guild_id).
C6_OneDocPerKey ==
    \A i, j \in 1..Len(members) : members[i].user_id = members[j].user_id => i = j

\* C11: _perform_sync changes, of a document that exists, nothing but is_bot (and the
\* unmodelled username, display_name, updated_at): join_position, joined_at,
\* habit_count and last_increment stay, no document is removed, and the documents
\* of users that are not live stay as they are.
C11_SyncFrame ==
    [][SeqSync =>
        /\ Len(members') >= Len(members)
        /\ \A i \in 1..Len(members) :
            /\ members'[i] = [members[i] EXCEPT !.is_bot = members'[i].is_bot]
            /\ ~InList(live, members[i].user_id) => members'[i] = members[i]]_vars

\* C11's case: a sync has updated a live member that holds habit data, while the
\* store also holds the document of a user that is no longer live
C11_Witness ==
    /\ lastOp.op = "sync" /\ lastOp.b >= 1
    /\ \E i \in 1..Len(members) :
        /\ InList(live, members[i].user_id)
        /\ members[i].habit_count >= 1 /\ members[i].last_increment # None
    /\ \E j \in 1..Len(members) : ~InList(live, members[j].user_id)

\* C13: fix_member_data run to completion gives every live member that had a document
\* the habit_count and last_increment it had, and every live member that had none
\* habit_count 0 and last_increment null.
C13_RebuildPreservesHabit ==
    [][SeqRebuild =>
        \A u \in Users : InList(live, u) =>
            /\ HasDoc(members', u)
            /\ IF HasDoc(members, u)
               THEN /\ DocOf(members', u).habit_count = HabitOf(DocOf(members, u))
                    /\ DocOf(members', u).last_increment = DocOf(members, u).last_increment
               ELSE /\ DocOf(members', u).habit_count = 0
                    /\ DocOf(members', u).last_increment = None]_vars

\* C13's case: a rebuild has run over a member with habit data and a live member
\* that had no document
C13_Witness ==
    /\ lastOp.op = "rebuild" /\ lastOp.a >= 2 /\ lastOp.b >= 1 /\ lastOp.b < lastOp.a
    /\ \E i \in 1..Len(members) :
        members[i].habit_count >= 1 /\ members[i].last_increment # None
    /\ \E j \in 1..Len(members) :
        members[j].habit_count = 0 /\ members[j].last_increment = None

C18_PressFrame ==
    [][\A u \in Humans :
        (SeqPress(u) /\ HasDoc(members, u)) =>
            /\ Len(members') = Len(members)
            /\ \A i \in 1..Len(members) :
                /\ members'[i].user_id = members[i].user_id
                /\ members'[i].join_position = members[i].join_position
                /\ members'[i].joined_at = members[i].joined_at
                /\ members'[i].is_bot = members[i].is_bot
                /\ members[i].user_id # u => members'[i] = members[i]]_vars

\* C18's case: an accepted press of a member that already had a counted increment,
\* with another member's document in the store
C18_Witness ==
    /\ lastOp.op = "press" /\ lastOp.res = "success" /\ lastOp.a >= 2
    /\ \E i \in 1..Len(members) : members[i].user_id # lastOp.user

\* C12: for every live member without a document, _perform_sync inserts exactly one,
\* with the join_position the ordering assigns to that member (a human: its index
\* among the sorted humans; the k-th sorted bot: H + k), habit_count 0 (as read with
\* get's default) and last_increment null.
C12_SyncInsertsOrdered ==
    [][SeqSync =>
        \A u \in OrdUsers : (InList(live, u) /\ ~HasDoc(members, u)) =>
            /\ Cardinality({i \in 1..Len(members') : members'[i].user_id = u}) = 1
            /\ DocOf(members', u).join_position = RebuildPositions(live, joinedAt)[u]
            /\ HabitOf(DocOf(members', u)) = 0
            /\ DocOf(members', u).last_increment = None]_vars

\* the documents the leaderboard ranks
Ranked(db) == {i \in 1..Len(db) : db[i].habit_count >= 1}

\* where on the pages shown so far document i has a row
RowsOf(i) ==
    {kj \in (1..Len(shown.pages)) \X (1..MaxDocs) :
        /\ kj[2] <= Len(shown.pages[kj[1]].rows)
        /\ shown.pages[kj[1]].rows[kj[2]].doc = i}

\* C15: the ranking the leaderboard query returns holds exactly the documents with
\* habit_count >= 1 (none with 0 or without the field), each once, so that their ranks
\* are 1..K also among equal counts, with habit_count non-increasing along the ranks;
\* the first page, drawn from it, shows these ranks.
C15_RankingStrict ==
    shown.pages # <<>> =>
        LET r == shown.ranking
            last == shown.pages[1]
        IN /\ {r[k] : k \in 1..Len(r)} = Ranked(members)
           /\ Len(r) = Cardinality(Ranked(members))
           /\ \A a, b \in 1..Len(r) :
                a < b => /\ r[a] # r[b]
                         /\ members[r[a]].habit_count >= members[r[b]].habit_count
           /\ \A j \in 1..Len(last.rows) :
                /\ last.rows[j].rank = last.offset + j
                /\ last.rows[j].doc = r[last.offset + j]

\* C15's case: two documents with equal counts are ranked 1 and 2 on the page, and a
\* third document, without a count, is not ranked
C15_Witness ==
    /\ Len(shown.pages) = 1 /\ Len(members) = 3
    /\ Len(shown.pages[1].rows) = 2
    /\ shown.pages[1].rows[1].rank = 1 /\ shown.pages[1].rows[2].rank = 2
    /\ shown.pages[1].rows[1].level = shown.pages[1].rows[2].level
    /\ \E i \in 1..3 : members[i].habit_count < 1

\* C16: the page at offset o shows the ranking's slice [o : o + limit] with the ranks
\* o + 1 .. o + len(slice), a page at or past the end shows no row (and is no error),
\* and the pages at offsets 0, limit, 2 * limit, ... of an unchanged store partition
\* the ranking: every ranked document is on at most one page, and on exactly one
\* once the pages reach the end of the ranking.
C16_PagesPartition ==
    LET K == Cardinality(Ranked(members)) IN
    /\ \A k \in 1..Len(shown.pages) :
        LET pg == shown.pages[k] IN
        /\ pg.offset = (k - 1) * shown.limit
        /\ pg.offset >= K => pg.kind \in {"empty_page", "no_members"} /\ pg.rows = <<>>
        /\ pg.offset < K =>
            /\ pg.kind = "rows"
            /\ Len(pg.rows) = (IF K - pg.offset < shown.limit THEN K - pg.offset
                               ELSE shown.limit)
            /\ \A j \in 1..Len(pg.rows) : pg.rows[j].rank = pg.offset + j
    /\ \A i \in Ranked(members) :
        /\ Cardinality(RowsOf(i)) <= 1
        /\ Len(shown.pages) * shown.limit >= K => Cardinality(RowsOf(i)) = 1

\* C17: Profile shows a rank exactly when the user's document has habit_count >= 1,
\* and it is the rank of the user's row on the leaderboard page that lists the user.
C17_ProfileRank ==
    shown.profile # <<>> =>
        LET pr == shown.profile[1]
            D == {i \in 1..Len(members) : members[i].user_id = pr.user}
        IN /\ (pr.res = "rank") = (\E i \in D : members[i].habit_count >= 1)
           /\ \A k \in 1..Len(shown.pages) : \A j \in 1..Len(shown.pages[k].rows) :
                    shown.pages[k].rows[j].user = pr.user
                        => pr.res = "rank" /\ pr.rank = shown.pages[k].rows[j].rank

\* C19: once a member's leave has been processed (the member is not live, and its
\* on_member_remove has run remove_member), no write of a sync, a rebuild or a press
\* that was running when the member left gives the store a document of that user
\* (the upserts of the member's own join handlers are left aside).
C19_NoDocAfterLeave ==
    [][\A u \in ConcUsers :
        (/\ ~InList(live, u) /\ leaveTasks[u] = "idle"
         /\ \A h \in Handlers : ~JoinUpsert(h, u))
        => Cardinality({i \in 1..Len(members') : members'[i].user_id = u})
                <= Cardinality({i \in 1..Len(members) : members[i].user_id = u})]_vars

C27_AcceptedFromResetTime ==
    [][\A u \in Users :
        (lastOp'.op = "press" /\ lastOp'.user = u /\ ops' = ops + 1)
        => /\ lastOp'.res = "rejected"
              => (lastOp'.a = PressLast(members, u) + OneDay /\ now < lastOp'.a)
           /\ (PressLast(members, u) # None /\ now >= PressLast(members, u) + OneDay)
              => /\ lastOp'.res = "success"
                 /\ PressCount(members', u) = PressCount(members, u) + 1
                 /\ lastOp'.a = PressCount(members', u)]_vars

\* a member's second Level Up was accepted: it came a day or more after the first
C27_Witness ==
    /\ lastOp.op = "press" /\ lastOp.res = "success" /\ lastOp.a = 2
    /\ PressLast(members, lastOp.user) >= OneDay

\* C29: a press whose increment_habit call found the user already incremented
\* today (it returned "already_incremented" and wrote nothing) is never reported
\* as "Level up!": no press ends as a success that did not increment.
C29_SuccessOnlyIfIncremented ==
    \A p \in 1..NumPress : press[p].res # "success_not_incremented"

\* C22: a sync aborted by a store failure after any number of member writes can be
\* retried: the re-run over the same live membership ends in the records one
\* uninterrupted run would have produced (so no key gains a second document), and
\* it leaves the join_position of every record the failed run left in the store.
C22_SyncRetrySafe ==
    [][(lastOp'.op = "sync_failed" /\ ops' = ops + 1)
        => LET retried == PerformSync(members', live', joinedAt').db IN
           /\ retried = PerformSync(members, live, joinedAt).db
           /\ Len(retried) >= Len(members')
           /\ \A i \in 1..Len(members') :
                /\ retried[i].user_id = members'[i].user_id
                /\ retried[i].join_position = members'[i].join_position]_vars

\* a sync ran after one that failed part way: it updated the records the failed
\* run had written and inserted the rest
C22_Witness ==
    /\ lastOp.op = "sync" /\ lastOp.after = "sync_failed"
    /\ lastOp.a >= 1 /\ lastOp.b >= 1
    /\ members = PerformSync(members, live, joinedAt).db

\* habit_count and last_increment of user u as the store holds them (0 and None
\* when it holds no document of u)
C23_Habit(db, u) == IF HasDoc(db, u) THEN HabitOf(DocOf(db, u)) ELSE 0
C23_Last(db, u) == IF HasDoc(db, u) THEN DocOf(db, u).last_increment ELSE None

C21_OnlyOnConfirm ==
    [][/\ (/\ ops' = ops + 1
           /\ \/ lastOp'.op \in {"prompt_timeout", "react_cancel", "react_other"}
              \/ (lastOp'.op = "react_confirm" /\ lastOp'.user # prompt.author))
          => (members' = members /\ guild'.banned = guild.banned /\ live' = live)
       /\ guild'.banned # guild.banned
          => /\ prompt.cmd = "ban"
             /\ lastOp'.op = "react_confirm" /\ lastOp'.user = prompt.author
             /\ guild'.banned = guild.banned \cup {prompt.target}
       /\ (lastOp'.op \in {"react_confirm", "react_cancel", "react_other", "prompt_timeout"}
            /\ ops' = ops + 1 /\ members' # members)
          => (lastOp'.op = "react_confirm" /\ lastOp'.user = prompt.author
              /\ prompt.cmd \in {"fix", "analyze"})]_vars

\* after one ban was confirmed and carried out, a second ban prompt was answered
\* with the cross
C21_Witness ==
    /\ lastOp.op = "react_cancel" /\ lastOp.res = "cancelled"
    /\ guild.banned # {} /\ prompt = NoPrompt

\* The inputs C24 is about: amounts that are no number or lie outside 1..100,
\* durations whose unit is not m, h or d or whose value is no integer, a field
\* name editinfo does not list, a value that is no int or no datetime
C24_BadAmounts == {"0", "101", "x", "true", "T1", "D2"}
C24_BadDurations == {<<"1", "x">>, <<"x", "m">>, <<"", "h">>, <<"", "1">>}
C24_BadValue(field, value) ==
    \/ field = "level"
    \/ field \in {"join_position", "habit_count"} /\ value \in {"max", "x", "true", "T1", "D2"}
    \/ field \in {"joined_at", "last_increment"} /\ value \in {"max", "x", "true", "0", "101"}

\* C24: a command whose input fails validation changes nothing: clear deletes no
\* message, timeout times nobody out, editinfo writes no member record, and a
\* welcome message of more than 500 characters leaves the settings as they were.
C24_RejectedBeforeMutation ==
    [][/\ lastOp'.op = "clear"
          => \A args \in C24_BadAmounts :
                Clear(args) => (guild' = guild /\ lastOp'.res # "cleared")
       /\ lastOp'.op = "timeout"
          => \A d \in C24_BadDurations :
                Timeout(lastOp'.user, d) => (guild' = guild /\ lastOp'.res # "timed_out")
       /\ lastOp'.op = "editinfo"
          => \A f \in FieldInputs, v \in Texts :
                (C24_BadValue(f, v) /\ EditInfo(lastOp'.user, f, v)) => members' = members
       /\ lastOp'.op = "setmessage"
          => \A text \in WelcomeTexts :
                (WelcomeTextLen[text] > 500 /\ SetWelcomeMessage(text))
                => settings' = settings]_vars

\* a welcome message of 501 characters was refused after one that was stored
C24_Witness ==
    /\ lastOp.op = "setmessage" /\ lastOp.res = "too_long" /\ lastOp.after = "setmessage"
    /\ settings # <<>> /\ settings[1].welcome_message \in {1, 2}

\* the fields of a member document that editinfo lists
C28_DocFields == {"joined_at", "join_position", "is_bot", "habit_count", "last_increment"}

\* C28: editinfo on a member that has a document, with a field it lists and a
\* value of the field's type, stores the value; and the edit modal, when it reports
\* "updated successfully", has stored every field it was given.
C28_EditStores ==
    [][/\ (lastOp'.op = "editinfo" /\ HasDoc(members, lastOp'.user))
          => \A f \in C28_DocFields, v \in Texts :
                (ProcessValue(ValidFields[f], v).ok /\ EditInfo(lastOp'.user, f, v))
                => DocOf(members', lastOp'.user)[f] = ProcessValue(ValidFields[f], v).value
       /\ (lastOp'.op = "modal" /\ lastOp'.res = "updated" /\ HasDoc(members, lastOp'.user))
          => \A h \in {"", "2"}, p \in {"", "1"}, j \in {"", "D1"} :
                ModalSubmit(lastOp'.user, h, p, j)
                => \A f \in DOMAIN ModalFields(h, p, j) :
                        DocOf(members', lastOp'.user)[f] = ModalFields(h, p, j)[f]]_vars

\* C26: the guild never has more than one server-settings document.
C26_OneSettingsDocument == Len(settings) <= 1

\* the stored leaderboard reference points at a message that no longer exists
C25_Stale(st, posts) ==
    HasLeaderboardRef(st) /\ SettingOf(st, "leaderboard_message_id") \notin posts

C25_Cleared(st) ==
    /\ SettingOf(st, "leaderboard_message_id") = None
    /\ SettingOf(st, "leaderboard_channel_id") = None

\* C25: refresh_leaderboard and the restore at start-up, finding the stored message
\* gone, clear both stored ids and leave no leaderboard_data entry; leaderboard,
\* finding it gone or finding none stored, sends a new message and stores both ids
\* (and the entry); and while the stored message exists leaderboard sends nothing
\* and keeps the reference.
C25_StaleReferenceCleanup ==
    [][ops' = ops + 1 =>
        /\ (lastOp'.op \in {"refresh", "restore"} /\ C25_Stale(settings, guild.posts))
           => /\ C25_Cleared(settings') /\ leaderboard_data' = None
              /\ lastOp'.res = "cleaned" /\ guild' = guild
        /\ (lastOp'.op = "leaderboard"
             /\ (C25_Stale(settings, guild.posts) \/ ~HasLeaderboardRef(settings)))
           => /\ guild'.sent = guild.sent + 1
              /\ guild'.posts = guild.posts \cup {guild'.sent}
              /\ guild'.sent \notin guild.posts
              /\ SettingOf(settings', "leaderboard_message_id") = guild'.sent
              /\ SettingOf(settings', "leaderboard_channel_id") # None
              /\ leaderboard_data' =
                    [channel_id |-> SettingOf(settings', "leaderboard_channel_id"),
                     message_id |-> guild'.sent]
        /\ (lastOp'.op = "leaderboard"
             /\ HasLeaderboardRef(settings) /\ ~C25_Stale(settings, guild.posts))
           => /\ guild' = guild /\ lastOp'.res = "exists"
              /\ SettingOf(settings', "leaderboard_message_id")
                    = SettingOf(settings, "leaderboard_message_id")]_vars

\* the leaderboard message was deleted, refresh_leaderboard cleaned the reference
\* up, and the next leaderboard command sent and stored a second message
C25_Witness ==
    /\ lastOp.op = "leaderboard" /\ lastOp.res = "created" /\ lastOp.after = "refresh"
    /\ lastOp.a = 2 /\ guild.posts = {2}
    /\ SettingOf(settings, "leaderboard_message_id") = 2

\* C30: a paginated session is opened only with more ranked members than a page
\* holds, on the second page; its offset is always a non-negative multiple of the
\* limit; Previous on the first page, Next on the last, and any press of a user who
\* did not open the session are refused and leave the session as it is; and when
\* the ranked count is what it was when the displayed page was drawn, the page a
\* press draws has rows and a footer numbered within 1..total_pages.
C30_PaginationInBounds ==
    [][/\ session'.open
          => (session'.offset >= 0 /\ session'.offset % session'.limit = 0)
       /\ (~session.open /\ session'.open)
          => /\ CountRanked(members) > session'.limit
             /\ session'.offset = session'.limit
       /\ (lastOp'.op \in {"previous", "next"} /\ ops' = ops + 1)
          => /\ lastOp'.user # session.user => session' = session
             /\ (lastOp'.op = "previous" /\ session.offset = 0) => session' = session
             /\ (lastOp'.op = "next"
                 /\ session.offset + session.limit >= CountRanked(members))
                => session' = session
             /\ (lastOp'.res = "shown" /\ CountRanked(members) = session.page.total)
                => /\ session'.page.page.kind = "rows"
                   /\ Len(session'.page.page.rows) >= 1
                   /\ session'.page.footer # <<>>
                   /\ session'.page.footer[1] \in 1..session'.page.footer[2]]_vars

\* the opener went back to the first page and pressed Previous again, which was
\* refused
C30_Witness ==
    /\ session.open /\ session.offset = 0
    /\ lastOp.op = "previous" /\ lastOp.res = "first_page" /\ lastOp.after = "previous"
    /\ session.page.page.kind = "rows"

====
